---- MODULE Spec2Model ----
(***************************************************************************)
(* Frame Relay: the child-side communication channel of                    *)
(* src/frame-relay/communication.ts, with the helpers it imports, as a     *)
(* state machine.  One action per exported operation, per host event       *)
(* (message delivery, timer expiry) and per change of the environment.     *)
(***************************************************************************)
EXTENDS Integers, Sequences, FiniteSets, TLC

\* ------------------------------------------------------------------ bounds
\* Total number of envelopes createOutgoingMessage may build in one run.
MaxSends == 3
\* Total number of initializeCommunication calls in one run.
MaxInits == 2
\* hubs createCommunicationHub may construct
MaxHubs == 2
\* handshakes IFrameController.establishCommunication may start
MaxHandshakes == 2
\* envelopes the controller's session methods may send
MaxParentSends == 2
\* patterns of at most this many characters, hosts of at most that many
MaxPatternLen == 4
MaxHostLen == 5
\* levels a GameService is constructed with
MaxLevels == 3
\* the length asked of getRandomNumbersArray, and the width of its range
MaxLength == 4
MaxRange == 3
\* handler methods that may be suspended at a time
MaxRunning == 2

\* --------------------------------------------------------------- constants
Null == "null"
Undefined == "undefined"
Wildcard == "*"

\* Windows of the browsing session: this frame, its embedder/opener, a third one.
Self == "self"
P == "P"
W2 == "W2"
OtherWindows == {P, W2}

\* MessageType / SystemControlMethod values (message.interface)
CONTROL == "control"
ERROR == "error"
GAME == "game"
REQUEST == "request"
SYNC == "sync"
INITIALIZE_CONNECTION == "init"
NAVIGATE_BACK == "back"

\* Characters are one-letter strings, a string is a sequence of characters.
OwnHost == <<"g", ".", "t">>
TrustedHost == <<"a", ".", "e", ".", "c">>
EvilHost == <<"x", "e", ".", "c">>
OwnOrigin == "https://g.t"
TrustedOrigin == "https://a.e.c"
EvilOrigin == "https://xe.c"
Origins == {OwnOrigin, TrustedOrigin, EvilOrigin}

\* The allowlist a consumer would configure: "*.e.c" and an exact host.
TrustedOrigins == << <<"*", ".", "e", ".", "c">>, <<"l", ":", "3">> >>

\* An optional argument: <<>> when the caller passes none, <<v>> otherwise.
None == <<>>
Some(v) == <<v>>

\* The result of an expression that may throw.
Threw == [threw |-> TRUE, value |-> FALSE]
Returned(v) == [threw |-> FALSE, value |-> v]

VARIABLES
  communicationState,  \* the module-level CommunicationState singleton
  windowListeners,     \* "message" listeners registered on this window
  listenersCreated,    \* closures createIncomingMessageListener has built
  timers,              \* pending setTimeout handles, by request
  requests,            \* every envelope built so far, with its promise/callback
  posted,              \* the calls of postMessage, in order
  closed,              \* windows whose .closed is true
  env,                 \* window.parent, window.opener, document.referrer
  hubStore,            \* communicationHubStore and the hubs constructed so far
  controller,          \* the IFrameController of the embedding page
  parentHost,          \* what the embedding page's window keeps for it
  transit,             \* how many posted envelopes each side has received,
                       \* and the origin the embedding page was loaded from
  fx,                  \* what the last step did: the event and the calls it made
  call,                \* the library function called last, its arguments and
                       \* its result or the point its execution has reached
  game,                \* the GameService constructed, its managers' variables,
                       \* and the method called last with the events it emitted
  running              \* the calls of handleIncomingMessage suspended at the
                       \* await of a handler method that has not settled

vars == <<communicationState, windowListeners, listenersCreated, timers,
          requests, posted, closed, env, hubStore,
          controller, parentHost, transit, fx, call, game, running>>

\* -------------------------------------------------------------- URL, hosts
\* new URL(s): the origins and referrers of this model parse, anything else throws.
NewURL(s) ==
  CASE s = OwnOrigin -> Returned([host |-> OwnHost, origin |-> OwnOrigin])
    [] s = TrustedOrigin -> Returned([host |-> TrustedHost, origin |-> TrustedOrigin])
    [] s = EvilOrigin -> Returned([host |-> EvilHost, origin |-> EvilOrigin])
    [] s = "https://g.t/play" -> Returned([host |-> OwnHost, origin |-> OwnOrigin])
    [] s = "https://a.e.c/hub" -> Returned([host |-> TrustedHost, origin |-> TrustedOrigin])
    [] OTHER -> Threw

startsWith(s, prefix) ==
  Len(s) >= Len(prefix) /\ SubSeq(s, 1, Len(prefix)) = prefix

endsWith(s, suffix) ==
  Len(s) >= Len(suffix) /\ SubSeq(s, Len(s) - Len(suffix) + 1, Len(s)) = suffix

\* s.split(".").length
splitLength(s) == Cardinality({i \in DOMAIN s : s[i] = "."}) + 1

\* isHostMatchingPattern without the comparison of the label counts.
isHostMatchingPattern_AnyDepth(pattern, hostname) ==
  IF startsWith(pattern, <<"*", ".">>)
  THEN LET domainSuffix == SubSeq(pattern, 2, Len(pattern)) IN
         /\ endsWith(hostname, domainSuffix)
         /\ hostname # domainSuffix
  ELSE pattern = hostname

isHostMatchingPattern(pattern, hostname) ==
  IF startsWith(pattern, <<"*", ".">>)
  THEN LET domainSuffix == SubSeq(pattern, 2, Len(pattern)) IN
         /\ endsWith(hostname, domainSuffix)
         /\ hostname # domainSuffix
         /\ splitLength(hostname) = splitLength(domainSuffix)
  ELSE pattern = hostname

\* trustedOrigins.some(...): reading .some of a missing argument is a TypeError.
validateTrustedOrigin(originUrl, trustedOrigins) ==
  IF trustedOrigins = None
  THEN Threw
  ELSE Returned(\E i \in DOMAIN trustedOrigins[1] :
                  isHostMatchingPattern(trustedOrigins[1][i], originUrl.host))

extractParentOrigin(referrerUrl) ==
  IF referrerUrl = ""
  THEN Wildcard
  ELSE LET parsedUrl == NewURL(referrerUrl) IN
         IF parsedUrl.threw THEN Wildcard ELSE parsedUrl.value.origin

\* ------------------------------------------------------- envelopes and JSON
\* A value that is present but is no string (a number, say).
NumberValue == "<number>"
isString(v) == v # Undefined /\ v # NumberValue

\* FrameRelayMessage; an absent property reads as undefined.
Envelope(id, type, method, payload) ==
  [isObject |-> TRUE, id |-> id, type |-> type, method |-> method,
   text |-> Undefined, payload |-> payload]

\* A parsed JSON value that is no object (a number, null).
ScalarValue ==
  [isObject |-> FALSE, id |-> Undefined, type |-> Undefined, method |-> Undefined,
   text |-> Undefined, payload |-> Undefined]

\* JSON.parse("null"): no object either, and the one of the two that is falsy.
NullValue == [ScalarValue EXCEPT !.payload = Null]
truthy(value) == value # NullValue

\* event.data: a non-string, or a string that is or is not JSON text.
NonStringData == [isString |-> FALSE, parses |-> FALSE, value |-> ScalarValue]
GarbageData == [isString |-> TRUE, parses |-> FALSE, value |-> ScalarValue]

\* JSON.stringify omits undefined properties, which is how they are kept here.
JSONstringify(message) == [isString |-> TRUE, parses |-> TRUE, value |-> message]

\* JSON.parse throws a SyntaxError on text that is no JSON.
JSONparse(data) == IF data.parses THEN Returned(data.value) ELSE Threw

\* isValidMessageStructure without the check of the text field.
isValidMessageStructure_NoTextCheck(obj) ==
  /\ obj.isObject
  /\ isString(obj.type) /\ obj.type # ""
  /\ (obj.id # Undefined => isString(obj.id))
  /\ (obj.method # Undefined => isString(obj.method))

isValidMessageStructure(obj) ==
  /\ obj.isObject
  /\ isString(obj.type) /\ obj.type # ""
  /\ (obj.id # Undefined => isString(obj.id))
  /\ (obj.method # Undefined => isString(obj.method))
  /\ (obj.text # Undefined => isString(obj.text))

parseIncomingMessage(messageEvent) ==
  IF ~messageEvent.data.isString
  THEN [success |-> FALSE, message |-> ScalarValue]
  ELSE LET parsedMessage == JSONparse(messageEvent.data) IN
         IF parsedMessage.threw
         THEN [success |-> FALSE, message |-> ScalarValue]
         ELSE IF ~isValidMessageStructure(parsedMessage.value)
              THEN [success |-> FALSE, message |-> ScalarValue]
              ELSE [success |-> TRUE, message |-> parsedMessage.value]

\* ------------------------------------------------------ CommunicationState
\* A Map as a function from its keys.
EmptyMap == [k \in {} |-> 0]
MapHas(m, k) == k \in DOMAIN m
MapGet(m, k) == m[k]
MapDelete(m, k) == [j \in DOMAIN m \ {k} |-> m[j]]
MapSet(m, k, v) == [j \in DOMAIN m \cup {k} |-> IF j = k THEN v ELSE m[j]]

InitialState ==
  [currentWindow |-> Null, parentOrigin |-> Null, parentWindow |-> Null,
   messageQueue |-> <<>>, nextMessageId |-> 0, pendingCallbacks |-> EmptyMap,
   messageListener |-> None]

\* CommunicationState.reset()
reset(st) == InitialState

\* generateMessageId(): (this.nextMessageId++).toString()
generateMessageId(st) ==
  [id |-> ToString(st.nextMessageId),
   st |-> [st EXCEPT !.nextMessageId = st.nextMessageId + 1]]

\* ------------------------------------------------------------ the channel
\* The operations below take and return a world w: the channel state w.st and
\* what the host keeps for it (listeners, timers, promises, postMessage calls),
\* so that a call made from inside another call composes.

\* targetWindow.postMessage(JSON.stringify(message), targetOrigin); the log
\* keeps which request the envelope belongs to and whether the call is the one
\* of flushQueuedMessages.
postMessage(w, targetWindow, message, targetOrigin, req, flushed) ==
  [w EXCEPT !.posted = Append(@, [to |-> targetWindow, data |-> JSONstringify(message),
                                  origin |-> targetOrigin, req |-> req,
                                  flushed |-> flushed])]

createOutgoingMessage(st, messageType, methodName, payload) ==
  LET g == generateMessageId(st) IN
    [message |-> Envelope(g.id, messageType, methodName, payload), st |-> g.st]

\* dispatchMessageToParent queueing whether the counterpart is known or not.
dispatchMessageToParent_AlwaysQueues(w, message, req) ==
  [w EXCEPT !.st.messageQueue = Append(@, [message |-> message, req |-> req])]

dispatchMessageToParent(w, message, req) ==
  IF w.st.parentWindow # Null /\ w.st.parentOrigin # Null
  THEN postMessage(w, w.st.parentWindow, message, w.st.parentOrigin, req, FALSE)
  ELSE [w EXCEPT !.st.messageQueue = Append(@, [message |-> message, req |-> req])]

\* The promise or callback a request was sent with.
NewRequest(message, kind) ==
  [id |-> message.id, method |-> message.method, kind |-> kind,
   state |-> IF kind = "async" THEN "pending" ELSE "none",
   value |-> Undefined, settles |-> 0, invoked |-> 0]

sendMessageToParentAsync(w, messageType, methodName, payload) ==
  LET c == createOutgoingMessage(w.st, messageType, methodName, payload)
      req == Len(w.requests) + 1
      w1 == [w EXCEPT !.st = c.st,
                      !.requests = Append(@, NewRequest(c.message, "async")),
                      !.timers = @ \cup {req}]
      w2 == [w1 EXCEPT !.st.pendingCallbacks = MapSet(@, c.message.id, req)]
  IN dispatchMessageToParent(w2, c.message, req)

\* callback: "callback" when the caller passes one, "plain" when it passes none
sendMessageToParent(w, messageType, methodName, payload, callback) ==
  LET c == createOutgoingMessage(w.st, messageType, methodName, payload)
      req == Len(w.requests) + 1
      w1 == [w EXCEPT !.st = c.st,
                      !.requests = Append(@, NewRequest(c.message, callback))]
      w2 == IF callback = "callback"
            THEN [w1 EXCEPT !.st.pendingCallbacks = MapSet(@, c.message.id, req)]
            ELSE w1
  IN dispatchMessageToParent(w2, c.message, req)

\* resolve(response) / reject(error) of the promise of request req
resolve(w, req, response) ==
  [w EXCEPT !.requests[req].settles = @ + 1,
            !.requests[req].state = IF @ = "pending" THEN "resolved" ELSE @,
            !.requests[req].value =
               IF w.requests[req].state = "pending" THEN response ELSE @]

reject(w, req) ==
  [w EXCEPT !.requests[req].settles = @ + 1,
            !.requests[req].state = IF @ = "pending" THEN "rejected" ELSE @]

\* The setTimeout callback of sendMessageToParentAsync, for request req.
timeoutCallback(w, req) ==
  reject([w EXCEPT !.st.pendingCallbacks = MapDelete(@, w.requests[req].id),
                   !.timers = @ \ {req}], req)

\* The callback of sendAsync without its clearTimeout.
invokeCallback_KeepsTimer(w, req, response, reenter) ==
  LET w1 == [w EXCEPT !.requests[req].invoked = @ + 1]
  IN IF w.requests[req].kind = "async"
     THEN resolve(w1, req, response)
     ELSE IF reenter /\ Len(w1.requests) < MaxSends
          THEN sendMessageToParent(w1, CONTROL, NAVIGATE_BACK, Undefined, "plain")
          ELSE w1

\* A registered callback is called with the response.  The one sendAsync
\* registers clears its timer and resolves; an application callback may send
\* again from inside (reenter), which the bound on envelopes allows or not.
invokeCallback(w, req, response, reenter) ==
  LET w1 == [w EXCEPT !.requests[req].invoked = @ + 1]
  IN IF w.requests[req].kind = "async"
     THEN resolve([w1 EXCEPT !.timers = @ \ {req}], req, response)
     ELSE IF reenter /\ Len(w1.requests) < MaxSends
          THEN sendMessageToParent(w1, CONTROL, NAVIGATE_BACK, Undefined, "plain")
          ELSE w1

\* The method of AbstractMessageHandler the switch on message.type selects.
handlerMethod(type) ==
  CASE type = CONTROL -> "onControlMessage"
    [] type = ERROR -> "onErrorMessage"
    [] type = GAME -> "onGameMessage"
    [] type = REQUEST -> "onRequestMessage"
    [] type = SYNC -> "onSyncStateMessage"
    [] OTHER -> "onUnknownMessage"

\* await messageHandler.onXxx(message): the method is called with the message
\* and returns, throws, returns a promise that rejects, or returns a promise
\* still pending (w.handler); the await raises in the second and third case,
\* and in the last the listener stays suspended there while its caller goes on.
awaitHandler(w, message) ==
  [w EXCEPT !.calls = Append(@, [method |-> handlerMethod(message.type), req |-> 0,
                                 id |-> message.id, type |-> message.type,
                                 arg |-> message.payload, outcome |-> w.handler]),
            !.raised = w.handler \in {"throws", "rejects"},
            !.running = IF w.handler = "suspends"
                        THEN Append(@, [method |-> handlerMethod(message.type),
                                        id |-> message.id])
                        ELSE @]

\* processParentMessage with the switch outside any try block.
processParentMessage_NoCatch(w, message, reenter) ==
  IF message.id # Undefined /\ message.id # ""
     /\ MapHas(w.st.pendingCallbacks, message.id)
  THEN LET callback == MapGet(w.st.pendingCallbacks, message.id)
           w1 == [w EXCEPT !.st.pendingCallbacks = MapDelete(@, message.id),
                           !.calls = Append(@, [method |-> "callback", req |-> callback,
                                               id |-> message.id, type |-> message.type,
                                               arg |-> message.payload,
                                               outcome |-> "returns"])]
       IN invokeCallback(w1, callback, message.payload, reenter)
  ELSE awaitHandler(w, message)

\* processParentMessage taking any registered callback for a message with an id.
processParentMessage_AnyPending(w, message, reenter) ==
  IF message.id # Undefined /\ message.id # ""
     /\ DOMAIN w.st.pendingCallbacks # {}
  THEN LET key == CHOOSE k \in DOMAIN w.st.pendingCallbacks : TRUE
           callback == MapGet(w.st.pendingCallbacks, key)
           w1 == [w EXCEPT !.st.pendingCallbacks = MapDelete(@, key),
                           !.calls = Append(@, [method |-> "callback", req |-> callback,
                                               id |-> message.id, type |-> message.type,
                                               arg |-> message.payload,
                                               outcome |-> "returns"])]
       IN invokeCallback(w1, callback, message.payload, reenter)
  ELSE LET w1 == awaitHandler(w, message) IN
         IF w1.raised
         THEN [w1 EXCEPT !.raised = FALSE]
         ELSE w1

processParentMessage(w, message, reenter) ==
  IF message.id # Undefined /\ message.id # ""
     /\ MapHas(w.st.pendingCallbacks, message.id)
  THEN LET callback == MapGet(w.st.pendingCallbacks, message.id)
           w1 == [w EXCEPT !.st.pendingCallbacks = MapDelete(@, message.id),
                           !.calls = Append(@, [method |-> "callback", req |-> callback,
                                               id |-> message.id, type |-> message.type,
                                               arg |-> message.payload,
                                               outcome |-> "returns"])]
       IN invokeCallback(w1, callback, message.payload, reenter)
  ELSE LET w1 == awaitHandler(w, message) IN
         IF w1.raised
         THEN [w1 EXCEPT !.raised = FALSE]
         ELSE w1

\* flushQueuedMessages taking the queue from its end (pop() for shift()).
flushQueuedMessages_Lifo(w) ==
  IF w.st.parentWindow = Null \/ w.st.parentOrigin = Null \/ Len(w.st.messageQueue) = 0
  THEN w
  ELSE LET RECURSIVE drain(_)
           drain(x) ==
             IF Len(x.st.messageQueue) > 0
             THEN LET n == Len(x.st.messageQueue)
                      queuedMessage == x.st.messageQueue[n]
                      x1 == [x EXCEPT !.st.messageQueue = SubSeq(@, 1, n - 1)]
                  IN drain(postMessage(x1, x1.st.parentWindow, queuedMessage.message,
                                       x1.st.parentOrigin, queuedMessage.req, TRUE))
             ELSE x
       IN drain(w)

flushQueuedMessages(w) ==
  IF w.st.parentWindow = Null \/ w.st.parentOrigin = Null \/ Len(w.st.messageQueue) = 0
  THEN w
  ELSE LET RECURSIVE drain(_)
           drain(x) ==
             IF Len(x.st.messageQueue) > 0
             THEN LET queuedMessage == Head(x.st.messageQueue)
                      x1 == [x EXCEPT !.st.messageQueue = Tail(@)]
                  IN drain(postMessage(x1, x1.st.parentWindow, queuedMessage.message,
                                       x1.st.parentOrigin, queuedMessage.req, TRUE))
             ELSE x
       IN drain(w)

\* updateParentRelationship that does not replace a closed counterpart.
updateParentRelationship_KeepsClosed(w, messageSource, messageOrigin) ==
  LET needsUpdate ==
        \/ w.st.parentWindow = Null
        \/ messageSource = w.st.parentWindow
      w1 == IF needsUpdate
            THEN [w EXCEPT !.st.parentWindow = messageSource,
                           !.st.parentOrigin = messageOrigin]
            ELSE w
  IN IF w1.st.parentWindow # Null /\ w1.st.parentWindow \in w1.closed
     THEN [w1 EXCEPT !.st.parentWindow = Null, !.st.parentOrigin = Null]
     ELSE flushQueuedMessages(w1)

\* updateParentRelationship taking every sender for the counterpart.
updateParentRelationship_AlwaysUpdates(w, messageSource, messageOrigin) ==
  LET w1 == [w EXCEPT !.st.parentWindow = messageSource,
                      !.st.parentOrigin = messageOrigin]
  IN IF w1.st.parentWindow # Null /\ w1.st.parentWindow \in w1.closed
     THEN [w1 EXCEPT !.st.parentWindow = Null, !.st.parentOrigin = Null]
     ELSE flushQueuedMessages(w1)

updateParentRelationship(w, messageSource, messageOrigin) ==
  LET needsUpdate ==
        \/ w.st.parentWindow = Null
        \/ w.st.parentWindow \in w.closed
        \/ messageSource = w.st.parentWindow
      w1 == IF needsUpdate
            THEN [w EXCEPT !.st.parentWindow = messageSource,
                           !.st.parentOrigin = messageOrigin]
            ELSE w
  IN IF w1.st.parentWindow # Null /\ w1.st.parentWindow \in w1.closed
     THEN [w1 EXCEPT !.st.parentWindow = Null, !.st.parentOrigin = Null]
     ELSE flushQueuedMessages(w1)

\* window.location.origin of the window the state holds; undefined without one.
locationOrigin(currentWindow) ==
  IF currentWindow = Null THEN Undefined ELSE OwnOrigin

\* shouldProcessMessage without the check against this window itself.
shouldProcessMessage_NoSelfCheck(st, messageSource, messageOrigin) ==
  IF locationOrigin(st.currentWindow) = messageOrigin
  THEN TRUE
  ELSE LET originUrl == NewURL(messageOrigin) IN
         IF originUrl.threw
         THEN FALSE
         ELSE LET trusted == validateTrustedOrigin(originUrl.value, None) IN
                IF trusted.threw THEN FALSE ELSE trusted.value

shouldProcessMessage(st, messageSource, messageOrigin) ==
  IF st.currentWindow # Null /\ messageSource = st.currentWindow
  THEN FALSE
  ELSE IF locationOrigin(st.currentWindow) = messageOrigin
       THEN TRUE
       ELSE LET originUrl == NewURL(messageOrigin) IN
              IF originUrl.threw
              THEN FALSE
              ELSE LET trusted == validateTrustedOrigin(originUrl.value, None) IN
                     IF trusted.threw THEN FALSE ELSE trusted.value

\* The listener maintaining the relationship before it asks the gate.
handleIncomingMessage_UpdateFirst(w, event, reenter) ==
  LET parseResult == parseIncomingMessage(event)
      w1 == IF parseResult.success
            THEN updateParentRelationship(w, event.source, event.origin)
            ELSE w
  IN IF ~shouldProcessMessage(w.st, event.source, event.origin) \/ ~parseResult.success
     THEN w1
     ELSE IF event.source = w1.st.parentWindow
          THEN processParentMessage(w1, parseResult.message, reenter)
          ELSE w1

\* The listener processing a message whichever window it came from.
handleIncomingMessage_NoSourceCheck(w, event, reenter) ==
  IF ~shouldProcessMessage(w.st, event.source, event.origin)
  THEN w
  ELSE LET parseResult == parseIncomingMessage(event) IN
         IF ~parseResult.success
         THEN w
         ELSE processParentMessage(updateParentRelationship(w, event.source, event.origin),
                                   parseResult.message, reenter)

\* The listener createIncomingMessageListener returns, called with one event.
handleIncomingMessage(w, event, reenter) ==
  IF ~shouldProcessMessage(w.st, event.source, event.origin)
  THEN w
  ELSE LET parseResult == parseIncomingMessage(event) IN
         IF ~parseResult.success
         THEN w
         ELSE LET w1 == updateParentRelationship(w, event.source, event.origin) IN
                IF event.source = w1.st.parentWindow
                THEN processParentMessage(w1, parseResult.message, reenter)
                ELSE w1

\* window.parent when this frame is embedded, else window.opener, else null.
detectParentWindow(e) ==
  IF e.parent # Self THEN e.parent
  ELSE IF e.opener # Null THEN e.opener
  ELSE Null

\* cleanupCommunication without the reset of the channel state.
cleanupCommunication_NoReset(w) ==
  IF w.st.currentWindow # Null /\ w.st.messageListener # None
  THEN [w EXCEPT !.listeners = @ \ {w.st.messageListener[1]}]
  ELSE w

cleanupCommunication(w) ==
  LET w1 == IF w.st.currentWindow # Null /\ w.st.messageListener # None
            THEN [w EXCEPT !.listeners = @ \ {w.st.messageListener[1]}]
            ELSE w
  IN [w1 EXCEPT !.st = reset(w1.st)]

\* initializeCommunication without the finally block that clears "*".
initializeCommunication_KeepsWildcard(w, e) ==
  LET w1 == [w EXCEPT !.st.currentWindow = Self]
      parentWindow == detectParentWindow(e)
  IN IF parentWindow = Null
     THEN [cleanupCommunication(w1) EXCEPT !.threw = TRUE]
     ELSE LET listener == w1.created + 1
              w2 == [w1 EXCEPT !.st.parentWindow = parentWindow,
                               !.st.messageListener = Some(listener),
                               !.created = listener,
                               !.listeners = @ \cup {listener}]
              w3 == [w2 EXCEPT !.st.parentOrigin = extractParentOrigin(e.referrer)]
          IN sendMessageToParentAsync(w3, CONTROL, INITIALIZE_CONNECTION, Undefined)

initializeCommunication(w, e) ==
  LET w1 == [w EXCEPT !.st.currentWindow = Self]
      parentWindow == detectParentWindow(e)
  IN IF parentWindow = Null
     THEN [cleanupCommunication(w1) EXCEPT !.threw = TRUE]
     ELSE LET listener == w1.created + 1
              w2 == [w1 EXCEPT !.st.parentWindow = parentWindow,
                               !.st.messageListener = Some(listener),
                               !.created = listener,
                               !.listeners = @ \cup {listener}]
              w3 == [w2 EXCEPT !.st.parentOrigin = extractParentOrigin(e.referrer)]
              w4 == sendMessageToParentAsync(w3, CONTROL, INITIALIZE_CONNECTION, Undefined)
          IN IF w4.st.parentOrigin = Wildcard
             THEN [w4 EXCEPT !.st.parentOrigin = Null]
             ELSE w4

\* ---------------------------------------------------- the hub and its store
\* A hub: its isInitialized flag, the requests whose promise a call of
\* establishCommunication awaits (setup: those setupAdvancedFrameRelay awaits
\* in turn), and how many handshakes its calls of establishCommunication have
\* run since it was last terminated or failed.
NewHub == [isInitialized |-> FALSE, awaiting |-> {}, setup |-> {}, handshakes |-> 0]

CommunicationHub_establishCommunication(w, h, e) ==
  LET w0 == [w EXCEPT !.target = h] IN
    IF w0.hub.hubs[h].isInitialized
    THEN w0
    ELSE LET w1 == initializeCommunication(w0, e)
             req == Len(w1.requests)
         IN IF req > Len(w0.requests)
            THEN [w1 EXCEPT !.hub.hubs[h].awaiting = @ \cup {req},
                            !.hub.hubs[h].handshakes = @ + 1]
            ELSE [w1 EXCEPT !.threw = TRUE]

CommunicationHub_terminateCommunication(w, h) ==
  LET w0 == [w EXCEPT !.target = h, !.hub.hubs[h].handshakes = 0] IN
    IF ~w0.hub.hubs[h].isInitialized
    THEN w0
    ELSE [cleanupCommunication(w0) EXCEPT !.hub.hubs[h].isInitialized = FALSE]

\* What follows the await in establishCommunication, for every call whose
\* promise has settled: isInitialized = true, or the catch block, and after it
\* the catch block of setupAdvancedFrameRelay, which terminates the hub.
RECURSIVE resumeHubs(_, _)
resumeHubs(w, h) ==
  IF h > Len(w.hub.hubs) THEN w
  ELSE LET hub == w.hub.hubs[h]
           settled == {r \in hub.awaiting : w.requests[r].state # "pending"}
           failed == {r \in settled : w.requests[r].state = "rejected"}
           w1 == [w EXCEPT
                    !.hub.hubs[h].awaiting = @ \ settled,
                    !.hub.hubs[h].setup = @ \ settled,
                    !.hub.hubs[h].isInitialized = @ \/ settled \ failed # {},
                    !.hub.hubs[h].handshakes = IF failed # {} THEN 0 ELSE @]
           w2 == IF failed \cap hub.setup # {}
                 THEN [CommunicationHub_terminateCommunication(w1, h)
                         EXCEPT !.target = w1.target]
                 ELSE w1
       IN resumeHubs(w2, h + 1)

CommunicationHub_establishCommunication_resume(w) == resumeHubs(w, 1)

\* sendAsyncMessage without the isInitialized guard.
CommunicationHub_sendAsyncMessage_NoGuard(w, h, messageType, methodName, payload) ==
  sendMessageToParentAsync([w EXCEPT !.target = h], messageType, methodName, payload)

CommunicationHub_sendAsyncMessage(w, h, messageType, methodName, payload) ==
  LET w0 == [w EXCEPT !.target = h] IN
    IF ~w0.hub.hubs[h].isInitialized
    THEN [w0 EXCEPT !.threw = TRUE]
    ELSE sendMessageToParentAsync(w0, messageType, methodName, payload)

CommunicationHub_sendMessage(w, h, messageType, methodName, payload, callback) ==
  LET w0 == [w EXCEPT !.target = h] IN
    IF ~w0.hub.hubs[h].isInitialized
    THEN [w0 EXCEPT !.threw = TRUE]
    ELSE sendMessageToParent(w0, messageType, methodName, payload, callback)

isReady(w, h) == w.hub.hubs[h].isInitialized

createHub(w) ==
  LET h == Len(w.hub.hubs) + 1 IN
    [w EXCEPT !.hub.hubs = Append(@, NewHub), !.hub.hubInstance = Some(h), !.target = h]

clearHub(w) ==
  LET w1 == IF w.hub.hubInstance # None
            THEN CommunicationHub_terminateCommunication(w, w.hub.hubInstance[1])
            ELSE w
  IN [w1 EXCEPT !.hub.hubInstance = None]

\* initializeFrameRelay up to the point where it waits for the hub.
initializeFrameRelay(w, e) ==
  LET w1 == createHub(w) IN
    CommunicationHub_establishCommunication(w1, w1.target, e)

\* setupAdvancedFrameRelay up to its await; its catch block terminates the hub.
setupAdvancedFrameRelay(w, e) ==
  LET w1 == createHub(w)
      w2 == CommunicationHub_establishCommunication(w1, w1.target, e)
  IN IF w2.threw
     THEN [CommunicationHub_terminateCommunication(w2, w2.target) EXCEPT !.threw = TRUE]
     ELSE [w2 EXCEPT !.hub.hubs[w2.target].setup = w2.hub.hubs[w2.target].awaiting]

\* ------------------------------------------------- the embedding page
\* IFrameLifecycleState
BOOTSTRAPPED == "bootstrapped"
CONTENT_LOADED == "loaded"
COMMUNICATION_READY == "initialized"

\* A new IFrameController.
NewController ==
  [lifecycleState |-> BOOTSTRAPPED, targetWindow |-> Null, targetOrigin |-> Null,
   messageEventListener |-> None]

\* The embedding page's window: the handshakes establishCommunication started
\* (each with its once-listener, its timer and its promise), the persistent
\* listeners registered, the closures created, and the postMessage calls made.
\* stale marks a handshake started before the last terminateIFrame, announced
\* one that was open when an INITIALIZE_CONNECTION message arrived, and
\* terminated that no handshake started since the last terminateIFrame has
\* completed.
NewParentHost ==
  [handshakes |-> <<>>, listeners |-> {}, created |-> 0, posted |-> <<>>,
   sends |-> 0, terminated |-> FALSE]

NewHandshake ==
  [listening |-> TRUE, timer |-> TRUE, promise |-> "pending",
   stale |-> FALSE, announced |-> FALSE]

\* The operations of the controller take and return a world p: the controller
\* p.ctl, its window p.host, and the handler methods called, p.calls.
IFrameController_parseIncomingMessage(data) ==
  IF ~data.isString
  THEN [success |-> FALSE, message |-> ScalarValue]
  ELSE LET parsed == JSONparse(data) IN
         IF parsed.threw
         THEN [success |-> FALSE, message |-> ScalarValue]
         ELSE [success |-> TRUE, message |-> parsed.value]

\* sendMessage leaving the id out of the envelope.
IFrameController_sendMessage_DropsId(p, type, messageData) ==
  IF p.ctl.targetWindow = Null \/ p.ctl.targetOrigin = Null
  THEN p
  ELSE [p EXCEPT !.host.posted =
          Append(@, [to |-> p.ctl.targetWindow,
                     data |-> JSONstringify(Envelope(Undefined, type,
                                                      messageData.method,
                                                      messageData.payload)),
                     origin |-> p.ctl.targetOrigin])]

\* messageData: the method, id and payload given, undefined when not given.
IFrameController_sendMessage(p, type, messageData) ==
  IF p.ctl.targetWindow = Null \/ p.ctl.targetOrigin = Null
  THEN p
  ELSE [p EXCEPT !.host.posted =
          Append(@, [to |-> p.ctl.targetWindow,
                     data |-> JSONstringify(Envelope(messageData.id, type,
                                                      messageData.method,
                                                      messageData.payload)),
                     origin |-> p.ctl.targetOrigin])]

\* The one-time listener without its clearTimeout.
handshakeListener_KeepsTimer(p, k, event) ==
  LET parseResult == IFrameController_parseIncomingMessage(event.data) IN
    IF /\ parseResult.success
       /\ parseResult.message.type = CONTROL
       /\ parseResult.message.method = INITIALIZE_CONNECTION
    THEN LET listener == p.host.created + 1
             p1 == [p EXCEPT !.ctl.lifecycleState = COMMUNICATION_READY,
                             !.ctl.messageEventListener = Some(listener),
                             !.host.created = listener,
                             !.host.listeners = @ \cup {listener}]
             p2 == IFrameController_sendMessage(p1, CONTROL,
                     [method |-> INITIALIZE_CONNECTION, id |-> parseResult.message.id,
                      payload |-> Undefined])
         IN [p2 EXCEPT !.host.handshakes[k].promise =
                          IF @ = "pending" THEN "resolved" ELSE @,
                       !.host.terminated = @ /\ p.host.handshakes[k].stale]
    ELSE p

\* The one-time listener of handshake k, called with an event.
handshakeListener(p, k, event) ==
  LET parseResult == IFrameController_parseIncomingMessage(event.data) IN
    IF /\ parseResult.success
       /\ parseResult.message.type = CONTROL
       /\ parseResult.message.method = INITIALIZE_CONNECTION
    THEN LET listener == p.host.created + 1
             p1 == [p EXCEPT !.host.handshakes[k].timer = FALSE,
                             !.ctl.lifecycleState = COMMUNICATION_READY,
                             !.ctl.messageEventListener = Some(listener),
                             !.host.created = listener,
                             !.host.listeners = @ \cup {listener}]
             p2 == IFrameController_sendMessage(p1, CONTROL,
                     [method |-> INITIALIZE_CONNECTION, id |-> parseResult.message.id,
                      payload |-> Undefined])
         IN [p2 EXCEPT !.host.handshakes[k].promise =
                          IF @ = "pending" THEN "resolved" ELSE @,
                       !.host.terminated = @ /\ p.host.handshakes[k].stale]
    ELSE p

\* The setTimeout callback of handshake k.
handshakeTimeout(p, k) ==
  [p EXCEPT !.host.handshakes[k].timer = FALSE,
            !.host.handshakes[k].promise = IF @ = "pending" THEN "rejected" ELSE @]

IFrameController_establishCommunication(p) ==
  IF p.ctl.targetWindow = Null
  THEN [p EXCEPT !.threw = TRUE]
  ELSE [p EXCEPT !.host.handshakes = Append(@, NewHandshake)]

\* routeMessageToHandler is async: when the handler method throws or its
\* promise rejects (p.handler), the promise routeMessageToHandler returned
\* rejects, and the listener, which does not await it, leaves it unhandled.
routeMessageToHandler(p, message) ==
  [p EXCEPT !.calls = Append(@, [method |-> handlerMethod(message.type), req |-> 0,
                                 id |-> message.id, type |-> message.type,
                                 arg |-> message.payload, outcome |-> p.handler]),
            !.raised = @ \/ p.handler \in {"throws", "rejects"}]

\* A persistent listener createMessageEventListener returned, called with an event.
messageEventListener(p, event) ==
  LET parseResult == IFrameController_parseIncomingMessage(event.data) IN
    IF ~parseResult.success \/ ~truthy(parseResult.message)
    THEN p
    ELSE routeMessageToHandler(p, parseResult.message)

\* iframeElement: its src and its contentWindow, null when not accessible.
configureIFrameTarget(p, iframeElement) ==
  LET p1 == [p EXCEPT !.ctl.targetOrigin = iframeElement.src,
                      !.ctl.targetWindow = iframeElement.contentWindow]
  IN IF p1.ctl.targetWindow = Null THEN [p1 EXCEPT !.threw = TRUE] ELSE p1

initializeIFrame(p, iframeElement) ==
  LET p1 == IF p.ctl.lifecycleState = BOOTSTRAPPED
            THEN LET q == configureIFrameTarget(p, iframeElement) IN
                   IF q.threw THEN q
                   ELSE [q EXCEPT !.ctl.lifecycleState = CONTENT_LOADED]
            ELSE p
  IN IF p1.threw THEN p1
     ELSE IF p1.ctl.lifecycleState = COMMUNICATION_READY THEN p1
     ELSE IF p1.ctl.lifecycleState = CONTENT_LOADED
          THEN IFrameController_establishCommunication(p1)
          ELSE [p1 EXCEPT !.threw = TRUE]

synchronizeState(p, synchronizationMethod, payload) ==
  IFrameController_sendMessage(p, SYNC,
    [method |-> synchronizationMethod, id |-> Undefined, payload |-> payload])

terminateIFrame(p) ==
  LET p1 == IF p.ctl.messageEventListener # None
            THEN [p EXCEPT !.host.listeners = @ \ {p.ctl.messageEventListener[1]},
                           !.ctl.messageEventListener = None]
            ELSE p
  IN [p1 EXCEPT !.ctl.targetWindow = Null,
                !.ctl.targetOrigin = Null,
                !.ctl.lifecycleState = BOOTSTRAPPED,
                !.host.terminated = TRUE,
                !.host.handshakes =
                   [k \in DOMAIN @ |-> [@[k] EXCEPT !.stale = TRUE]]]

\* The window calls the listeners registered when the event arrived: each
\* once-listener is removed as it is called; a listener added meanwhile is not
\* called for this event.
RECURSIVE callHandshakeListeners(_, _, _)
callHandshakeListeners(p, ks, event) ==
  IF ks = {} THEN p
  ELSE LET k == CHOOSE x \in ks : \A y \in ks : x <= y
           p1 == [p EXCEPT !.host.handshakes[k].listening = FALSE]
       IN callHandshakeListeners(handshakeListener(p1, k, event), ks \ {k}, event)

RECURSIVE callMessageEventListeners(_, _, _)
callMessageEventListeners(p, n, event) ==
  IF n = 0 THEN p
  ELSE callMessageEventListeners(messageEventListener(p, event), n - 1, event)

isInitializeConnection(event) ==
  LET parseResult == IFrameController_parseIncomingMessage(event.data) IN
    /\ parseResult.success
    /\ parseResult.message.type = CONTROL
    /\ parseResult.message.method = INITIALIZE_CONNECTION

dispatchToParent(p, event) ==
  LET ks == {k \in DOMAIN p.host.handshakes : p.host.handshakes[k].listening}
      n == Cardinality(p.host.listeners)
      p0 == IF isInitializeConnection(event)
            THEN [p EXCEPT !.host.handshakes =
                    [k \in DOMAIN @ |->
                       [@[k] EXCEPT !.announced = @ \/ p.host.handshakes[k].timer]]]
            ELSE p
  IN callMessageEventListeners(callHandshakeListeners(p0, ks, event), n, event)

\* ------------------------------------------------------- the game service
\* GameEvents
SESSION_ACTIVE == "session.active"
SESSION_PAUSE == "session.pause"
SESSION_END == "session.end"
RESULT_SUCCESS == "result.success"
RESULT_ERROR == "result.error"
RESULT_TIMEOUT == "result.timeout"

\* ResultType without the empty string.
Results == {"success", "error", "timeout"}

\* Date.now(), some time after the epoch.
DateNow == 1

\* The variables createSessionManager closes over.
NewSessionManager ==
  [session |-> "initialized", result |-> "", sessionStartTime |-> 0]

\* The methods of the session manager return the variables and their result.
SessionManager_startSession(sm) ==
  IF sm.session # "initialized"
  THEN [sm |-> sm, returns |-> FALSE]
  ELSE [sm |-> [sm EXCEPT !.session = "active", !.sessionStartTime = DateNow],
        returns |-> TRUE]

SessionManager_pauseSession(sm) ==
  IF sm.session # "active"
  THEN [sm |-> sm, returns |-> FALSE]
  ELSE [sm |-> [sm EXCEPT !.session = "paused"], returns |-> TRUE]

SessionManager_resumeSession(sm) ==
  IF sm.session # "paused"
  THEN [sm |-> sm, returns |-> FALSE]
  ELSE [sm |-> [sm EXCEPT !.session = "active"], returns |-> TRUE]

SessionManager_endSession(sm, sessionResult) ==
  IF sm.session = "end"
  THEN [sm |-> sm, returns |-> FALSE]
  ELSE IF sm.session = "initialized"
       THEN [sm |-> sm, returns |-> FALSE]
       ELSE [sm |-> [sm EXCEPT !.session = "end", !.result = sessionResult],
             returns |-> TRUE]

SessionManager_resetSession(sm) ==
  [sm EXCEPT !.session = "initialized", !.sessionStartTime = 0, !.result = ""]

\* sessionUtils.getValidTransitions
getValidTransitions(currentState) ==
  CASE currentState = "initialized" -> {"active"}
    [] currentState = "active" -> {"paused", "end"}
    [] currentState = "paused" -> {"active", "end"}
    [] currentState = "end" -> {"initialized"}
    [] OTHER -> {}

\* The variables createLevelManager closes over: the number of levels given
\* and the 0-based current level.
NewLevelManager(levels) == [levels |-> levels, currLevel |-> 0]

\* A number is an integer or NaN, which is kept as an integer no level takes.
\* Every comparison with NaN is false, and NaN + 1 is NaN.
NaN == 0 - 99
lessThan(a, b) == a # NaN /\ b # NaN /\ a < b
atLeast(a, b) == a # NaN /\ b # NaN /\ a >= b
plusOne(a) == IF a = NaN THEN NaN ELSE a + 1

LevelManager_isGameComplete(lm) == atLeast(lm.currLevel, lm.levels)

LevelManager_nextLevel(lm) ==
  LET newLevel == plusOne(lm.currLevel) IN
    IF atLeast(newLevel, lm.levels)
    THEN [lm |-> lm, returns |-> FALSE]
    ELSE [lm |-> [lm EXCEPT !.currLevel = newLevel], returns |-> TRUE]

LevelManager_setCurrLevel(lm, level) ==
  IF lessThan(level, 0) \/ atLeast(level, lm.levels)
  THEN [lm |-> lm, returns |-> FALSE]
  ELSE [lm |-> [lm EXCEPT !.currLevel = level], returns |-> TRUE]

\* No GameService yet.
NoGame ==
  [created |-> FALSE, sessionManager |-> NewSessionManager,
   levelManager |-> NewLevelManager(0), method |-> "none", arg |-> Undefined,
   emitted |-> <<>>]

\* new GameService(name, levels)
NewGameService(levels) ==
  [created |-> TRUE, sessionManager |-> NewSessionManager,
   levelManager |-> NewLevelManager(levels), method |-> "constructor",
   arg |-> Undefined, emitted |-> <<>>]

\* this.emit(event, ...args)
emit(g, event, arg) ==
  [g EXCEPT !.emitted = Append(@, [event |-> event, arg |-> arg])]

GameService_startSession(g) ==
  LET r == SessionManager_startSession(g.sessionManager)
      g1 == [g EXCEPT !.sessionManager = r.sm]
  IN IF r.returns THEN emit(g1, SESSION_ACTIVE, Undefined) ELSE g1

GameService_pauseSession(g) ==
  LET r == SessionManager_pauseSession(g.sessionManager)
      g1 == [g EXCEPT !.sessionManager = r.sm]
  IN IF r.returns THEN emit(g1, SESSION_PAUSE, Undefined) ELSE g1

GameService_resumeSession(g) ==
  LET r == SessionManager_resumeSession(g.sessionManager)
      g1 == [g EXCEPT !.sessionManager = r.sm]
  IN IF r.returns THEN emit(g1, SESSION_ACTIVE, Undefined) ELSE g1

\* endSession emitting session.end before the result event.
GameService_endSession_EndFirst(g, result) ==
  LET r == SessionManager_endSession(g.sessionManager, result)
      g1 == [g EXCEPT !.sessionManager = r.sm]
  IN IF r.returns
     THEN LET g2 == emit(g1, SESSION_END, result) IN
            IF result = "error" THEN emit(g2, RESULT_ERROR, Undefined)
            ELSE IF result = "success" THEN emit(g2, RESULT_SUCCESS, Undefined)
            ELSE IF result = "timeout" THEN emit(g2, RESULT_TIMEOUT, Undefined)
            ELSE g2
     ELSE g1

GameService_endSession(g, result) ==
  LET r == SessionManager_endSession(g.sessionManager, result)
      g1 == [g EXCEPT !.sessionManager = r.sm]
  IN IF r.returns
     THEN LET g2 == IF result = "error" THEN emit(g1, RESULT_ERROR, Undefined)
                    ELSE IF result = "success" THEN emit(g1, RESULT_SUCCESS, Undefined)
                    ELSE IF result = "timeout" THEN emit(g1, RESULT_TIMEOUT, Undefined)
                    ELSE g1
          IN emit(g2, SESSION_END, result)
     ELSE g1

GameService_resetSession(g) ==
  [g EXCEPT !.sessionManager = SessionManager_resetSession(@)]

GameService_nextLevel(g) ==
  [g EXCEPT !.levelManager = LevelManager_nextLevel(@).lm]

GameService_setCurrLevel(g, level) ==
  [g EXCEPT !.levelManager = LevelManager_setCurrLevel(@, level).lm]

GameService_isGameComplete(g) == LevelManager_isGameComplete(g.levelManager)

\* ------------------------------------------------------------ environment
\* Where this frame runs: embedded by P without a referrer, opened by P from a
\* page of another origin, or alone.
Environments ==
  { [parent |-> P, opener |-> Null, referrer |-> ""],
    [parent |-> Self, opener |-> P, referrer |-> "https://a.e.c/hub"],
    [parent |-> Self, opener |-> Null, referrer |-> ""] }

\* Envelopes other windows post to this one: replies to a request id, and
\* unsolicited envelopes of a known and of an unknown category.
InboundMessages ==
  { Envelope("0", CONTROL, INITIALIZE_CONNECTION, "pa"),
    Envelope("0", CONTROL, INITIALIZE_CONNECTION, "pb"),
    Envelope("1", CONTROL, NAVIGATE_BACK, "pa"),
    Envelope(Undefined, SYNC, "currLevel", "pa"),
    Envelope(Undefined, "bogus", Undefined, Undefined) }

InboundData == {NonStringData} \cup {JSONstringify(m) : m \in InboundMessages}

\* The opener or embedder P posts anything from this frame's origin, and a
\* reply from a foreign origin the allowlist names; a third window W2 posts
\* envelopes from this frame's origin; this frame posts a reply to itself.
Events ==
  {[source |-> P, origin |-> OwnOrigin, data |-> d] : d \in InboundData}
    \cup {[source |-> W2, origin |-> OwnOrigin, data |-> JSONstringify(m)] :
            m \in InboundMessages}
    \cup {[source |-> src, origin |-> IF src = Self THEN OwnOrigin ELSE TrustedOrigin,
           data |-> JSONstringify(Envelope("0", CONTROL, INITIALIZE_CONNECTION, "pa"))] :
            src \in {P, Self}}

\* ------------------------------------------------------------------ actions
World ==
  [st |-> communicationState, listeners |-> windowListeners,
   created |-> listenersCreated, timers |-> timers, requests |-> requests,
   posted |-> posted, closed |-> closed, calls |-> <<>>,
   hub |-> hubStore, target |-> 0, threw |-> FALSE,
   handler |-> "returns", raised |-> FALSE, running |-> running]

NoEvent == [source |-> Null, origin |-> Null, passed |-> FALSE, parsed |-> FALSE]

\* No message parsed by the embedding page in this step.
NoMessage == [success |-> FALSE, message |-> ScalarValue]

\* What a step of this frame leaves behind.
Changes(w, op, ev) ==
  /\ communicationState' = w.st
  /\ windowListeners' = w.listeners
  /\ listenersCreated' = w.created
  /\ timers' = w.timers
  /\ requests' = w.requests
  /\ posted' = w.posted
  /\ closed' = w.closed
  /\ hubStore' = w.hub
  /\ running' = w.running
  /\ fx' = [op |-> op, source |-> ev.source, origin |-> ev.origin,
            passed |-> ev.passed, parsed |-> ev.parsed, calls |-> w.calls,
            hub |-> w.target, threw |-> w.threw, escaped |-> w.raised,
            msg |-> NoMessage]
  /\ UNCHANGED <<env, call, game>>

\* A step of this frame alone.
Becomes(w, op, ev) ==
  /\ Changes(w, op, ev)
  /\ UNCHANGED <<controller, parentHost, transit>>

Init ==
  /\ communicationState = InitialState
  /\ windowListeners = {}
  /\ listenersCreated = 0
  /\ timers = {}
  /\ requests = <<>>
  /\ posted = <<>>
  /\ closed = {}
  /\ env \in Environments
  /\ hubStore = [hubInstance |-> None, hubs |-> <<>>]
  /\ fx = [op |-> "none", source |-> Null, origin |-> Null,
           passed |-> FALSE, parsed |-> FALSE, calls |-> <<>>,
           hub |-> 0, threw |-> FALSE, escaped |-> FALSE, msg |-> NoMessage]
  /\ controller = NewController
  /\ parentHost = NewParentHost
  /\ transit = [toParent |-> 0, toChild |-> 0, page |-> Null]
  /\ call = [fn |-> "none"]
  /\ game = NoGame
  /\ running = <<>>

InitializeCommunication ==
  /\ listenersCreated < MaxInits
  /\ Len(requests) < MaxSends
  /\ Becomes(initializeCommunication(World, env), "initializeCommunication", NoEvent)

CleanupCommunication ==
  Becomes(cleanupCommunication(World), "cleanupCommunication", NoEvent)

SendMessageToParent ==
  /\ Len(requests) < MaxSends
  /\ \E callback \in {"plain", "callback"} :
       Becomes(sendMessageToParent(World, CONTROL, NAVIGATE_BACK, Undefined, callback),
               "sendMessageToParent", NoEvent)

SendMessageToParentAsync ==
  /\ Len(requests) < MaxSends
  /\ Becomes(sendMessageToParentAsync(World, CONTROL, NAVIGATE_BACK, Undefined),
             "sendMessageToParentAsync", NoEvent)

\* The host calls every registered listener with the event, one after the other.
RECURSIVE dispatchEvent(_, _, _, _)
dispatchEvent(w, n, event, reenter) ==
  IF n = 0 THEN w
  ELSE dispatchEvent(handleIncomingMessage(w, event, reenter), n - 1, event, reenter)

\* What a method of the application's handler does when called.
HandlerBehaviours == {"returns", "throws", "rejects"}

\* What an application callback does when called is the application's choice.
Reentrancy ==
  IF \E id \in DOMAIN communicationState.pendingCallbacks :
       requests[communicationState.pendingCallbacks[id]].kind = "callback"
  THEN BOOLEAN
  ELSE {FALSE}

\* The window receives a message event; the handler's methods behave in one of
\* the given ways.
Receive(behaviours) ==
  /\ windowListeners # {}
  /\ \E event \in Events, reenter \in Reentrancy, handler \in behaviours :
       Becomes(CommunicationHub_establishCommunication_resume(
                 dispatchEvent([World EXCEPT !.handler = handler],
                               Cardinality(windowListeners), event, reenter)),
               "deliver",
               [source |-> event.source, origin |-> event.origin,
                passed |-> shouldProcessMessage(communicationState, event.source,
                                                event.origin),
                parsed |-> /\ shouldProcessMessage(communicationState, event.source,
                                                   event.origin)
                           /\ parseIncomingMessage(event).success])

\* A message event with a handler whose methods return.
Deliver == Receive({"returns"})

\* A message event with a handler whose methods may fail.
DeliverFaulty == Receive(HandlerBehaviours)

\* Every timer has the same delay, so they expire in the order they were set.
Timeout ==
  /\ timers # {}
  /\ LET req == CHOOSE r \in timers : \A q \in timers : r <= q IN
       Becomes(CommunicationHub_establishCommunication_resume(timeoutCallback(World, req)),
               "timeout", NoEvent)

\* The embedder or opener goes away.
CloseWindow ==
  \E win \in {P} \ closed :
    Becomes([World EXCEPT !.closed = @ \cup {win}], "close", NoEvent)

Next ==
  \/ InitializeCommunication
  \/ CleanupCommunication
  \/ SendMessageToParent
  \/ SendMessageToParentAsync
  \/ Deliver
  \/ Timeout
  \/ CloseWindow

Spec == Init /\ [][Next]_vars

\* The channel used one lifetime at a time: initializeCommunication is called
\* on a channel that is not initialized, and the application sends between
\* that call and cleanupCommunication.
Started == communicationState.currentWindow # Null

StartLifetime == ~Started /\ InitializeCommunication
SendInLifetime == Started /\ SendMessageToParent
SendAsyncInLifetime == Started /\ SendMessageToParentAsync

LifetimeNext ==
  \/ StartLifetime
  \/ CleanupCommunication
  \/ SendInLifetime
  \/ SendAsyncInLifetime
  \/ Deliver
  \/ Timeout
  \/ CloseWindow

LifetimeSpec == Init /\ [][LifetimeNext]_vars

\* The channel with an application handler whose methods may throw or reject.
FaultNext ==
  \/ InitializeCommunication
  \/ CleanupCommunication
  \/ SendMessageToParentAsync
  \/ DeliverFaulty
  \/ Timeout

FaultSpec == Init /\ [][FaultNext]_vars

\* The channel with an application handler whose methods are asynchronous:
\* a call returns at once or suspends.
AsyncBehaviours == {"returns", "suspends"}

DeliverAsync ==
  /\ Len(running) < MaxRunning
  /\ Receive(AsyncBehaviours)

\* The promise of a suspended handler method settles and the listener that
\* awaited it runs to its end.
remove(seq, i) == [j \in 1..(Len(seq) - 1) |-> IF j < i THEN seq[j] ELSE seq[j + 1]]

SettleHandler ==
  \E i \in DOMAIN running :
    Becomes([World EXCEPT !.running = remove(@, i)], "settleHandler", NoEvent)

AsyncNext ==
  \/ InitializeCommunication
  \/ SendMessageToParentAsync
  \/ DeliverAsync
  \/ SettleHandler
  \/ Timeout

AsyncSpec == Init /\ [][AsyncNext]_vars

\* ------------------------------------------------- the channel behind hubs
Hubs == DOMAIN hubStore.hubs

CreateCommunicationHub ==
  /\ Len(hubStore.hubs) < MaxHubs
  /\ Becomes(createHub(World), "createCommunicationHub", NoEvent)

ClearCommunicationHub ==
  Becomes(clearHub(World), "clearCommunicationHub", NoEvent)

InitializeFrameRelay ==
  /\ Len(hubStore.hubs) < MaxHubs
  /\ listenersCreated < MaxInits
  /\ Len(requests) < MaxSends
  /\ Becomes(initializeFrameRelay(World, env), "initializeFrameRelay", NoEvent)

SetupAdvancedFrameRelay ==
  /\ Len(hubStore.hubs) < MaxHubs
  /\ listenersCreated < MaxInits
  /\ Len(requests) < MaxSends
  /\ Becomes(setupAdvancedFrameRelay(World, env), "setupAdvancedFrameRelay", NoEvent)

EstablishCommunication ==
  \E h \in Hubs :
    /\ hubStore.hubs[h].isInitialized
         \/ (listenersCreated < MaxInits /\ Len(requests) < MaxSends)
    /\ Becomes(CommunicationHub_establishCommunication(World, h, env),
               "establishCommunication", NoEvent)

TerminateCommunication ==
  \E h \in Hubs :
    Becomes(CommunicationHub_terminateCommunication(World, h),
            "terminateCommunication", NoEvent)

SendMessage ==
  \E h \in Hubs, callback \in {"plain", "callback"} :
    /\ ~hubStore.hubs[h].isInitialized \/ Len(requests) < MaxSends
    /\ Becomes(CommunicationHub_sendMessage(World, h, CONTROL, NAVIGATE_BACK,
                                            Undefined, callback),
               "sendMessage", NoEvent)

SendAsyncMessage ==
  \E h \in Hubs :
    /\ ~hubStore.hubs[h].isInitialized \/ Len(requests) < MaxSends
    /\ Becomes(CommunicationHub_sendAsyncMessage(World, h, CONTROL, NAVIGATE_BACK,
                                                 Undefined),
               "sendAsyncMessage", NoEvent)

HubNext ==
  \/ CreateCommunicationHub
  \/ ClearCommunicationHub
  \/ InitializeFrameRelay
  \/ SetupAdvancedFrameRelay
  \/ EstablishCommunication
  \/ TerminateCommunication
  \/ SendMessage
  \/ SendAsyncMessage
  \/ Deliver
  \/ Timeout

HubSpec == Init /\ [][HubNext]_vars

\* ------------------------------------------------- the embedding page alone
\* The iframe element given to initializeIFrame: loaded from this frame's URL,
\* its contentWindow accessible or not.
IFrameElements ==
  { [src |-> "https://g.t/play", contentWindow |-> Self],
    [src |-> "https://g.t/play", contentWindow |-> Null] }

\* What windows post to the embedding page: the handshake request and other
\* envelopes from the frame, data that is no envelope (JSON text of a number,
\* of null and of an object without a type, text that is no JSON, a value
\* that is no string), and a handshake request from a third window.
ParentInboundData ==
  { JSONstringify(Envelope("0", CONTROL, INITIALIZE_CONNECTION, Undefined)),
    JSONstringify(Envelope("1", CONTROL, NAVIGATE_BACK, Undefined)),
    JSONstringify(Envelope(Undefined, GAME, "score", "pa")),
    JSONstringify(ScalarValue),
    JSONstringify(NullValue),
    JSONstringify(Envelope(Undefined, Undefined, Undefined, "pa")),
    GarbageData,
    NonStringData }

ParentEvents ==
  {[source |-> Self, origin |-> OwnOrigin, data |-> d] : d \in ParentInboundData}
    \cup {[source |-> W2, origin |-> EvilOrigin,
           data |-> JSONstringify(Envelope("7", CONTROL, INITIALIZE_CONNECTION, Undefined))]}

ParentWorld ==
  [ctl |-> controller, host |-> parentHost, calls |-> <<>>, threw |-> FALSE,
   handler |-> "returns", raised |-> FALSE]

ParentBecomes(p, op, event, msg) ==
  /\ controller' = p.ctl
  /\ parentHost' = p.host
  /\ fx' = [op |-> op, source |-> event.source, origin |-> event.origin,
            passed |-> FALSE, parsed |-> FALSE, calls |-> p.calls,
            hub |-> 0, threw |-> p.threw, escaped |-> p.raised, msg |-> msg]

ChildUnchanged ==
  UNCHANGED <<communicationState, windowListeners, listenersCreated, timers,
              requests, posted, closed, env, hubStore, call, game, running>>

InitializeIFrame ==
  /\ Len(parentHost.handshakes) < MaxHandshakes
  /\ \E iframeElement \in IFrameElements :
       ParentBecomes(initializeIFrame(ParentWorld, iframeElement), "initializeIFrame",
                     NoEvent, NoMessage)
  /\ ChildUnchanged /\ UNCHANGED transit

\* A message event on the embedding page's window, listened to or not; the
\* methods of the page's handler behave in one of the given ways.
ParentReceive(behaviours) ==
  /\ \E event \in ParentEvents, handler \in behaviours :
       ParentBecomes(dispatchToParent([ParentWorld EXCEPT !.handler = handler], event),
                     "parentDeliver", event,
                     IFrameController_parseIncomingMessage(event.data))
  /\ ChildUnchanged /\ UNCHANGED transit

\* A message event with a handler whose methods return.
ParentDeliver == ParentReceive({"returns"})

\* Every handshake has the same delay, so the timers fire in the order set.
HandshakeTimeout ==
  /\ \E k \in DOMAIN parentHost.handshakes : parentHost.handshakes[k].timer
  /\ LET k == CHOOSE x \in DOMAIN parentHost.handshakes :
                /\ parentHost.handshakes[x].timer
                /\ \A y \in DOMAIN parentHost.handshakes :
                     parentHost.handshakes[y].timer => x <= y
     IN ParentBecomes(handshakeTimeout(ParentWorld, k), "handshakeTimeout",
                      NoEvent, NoMessage)
  /\ ChildUnchanged /\ UNCHANGED transit

TerminateIFrame ==
  /\ ParentBecomes(terminateIFrame(ParentWorld), "terminateIFrame", NoEvent, NoMessage)
  /\ ChildUnchanged /\ UNCHANGED transit

SynchronizeState ==
  /\ parentHost.sends < MaxParentSends
  /\ ParentBecomes([synchronizeState(ParentWorld, "currLevel", 2)
                      EXCEPT !.host.sends = @ + 1],
                   "synchronizeState", NoEvent, NoMessage)
  /\ ChildUnchanged /\ UNCHANGED transit

ParentNext ==
  \/ InitializeIFrame
  \/ ParentDeliver
  \/ HandshakeTimeout
  \/ TerminateIFrame
  \/ SynchronizeState

ParentSpec == Init /\ [][ParentNext]_vars

\* The embedding page with a handler whose methods may throw or reject.
ParentDeliverFaulty == ParentReceive(HandlerBehaviours)

ParentFaultNext ==
  \/ InitializeIFrame
  \/ ParentDeliverFaulty
  \/ HandshakeTimeout
  \/ TerminateIFrame

ParentFaultSpec == Init /\ [][ParentFaultNext]_vars

\* --------------------------------------- the frame and its embedding page
\* otherWindow.postMessage(data, targetOrigin): the browser delivers the event
\* when targetOrigin is "*" or a URL of the recipient's origin.
targetOriginMatches(targetOrigin, recipientOrigin) ==
  \/ targetOrigin = Wildcard
  \/ LET parsedUrl == NewURL(targetOrigin) IN
       ~parsedUrl.threw /\ parsedUrl.value.origin = recipientOrigin

\* The page holding the controller is loaded, from this frame's origin or from
\* another one.
LoadPage ==
  /\ transit.page = Null
  /\ \E origin \in {OwnOrigin, TrustedOrigin} :
       transit' = [transit EXCEPT !.page = origin]
  /\ ParentBecomes(ParentWorld, "loadPage", NoEvent, NoMessage)
  /\ ChildUnchanged

\* The frame sets up its relay, once.
SetUpFrame ==
  /\ transit.page # Null
  /\ hubStore.hubs = <<>>
  /\ InitializeFrameRelay

\* The page creates its controller's handshakes once it is loaded.
SetUpController ==
  /\ transit.page # Null
  /\ InitializeIFrame

\* The next envelope this frame posted reaches the page as a message event
\* from the frame's window, when it was posted to the page's window with a
\* target origin the page matches; else it is discarded.
DeliverToPage ==
  /\ transit.page # Null
  /\ transit.toParent < Len(posted)
  /\ LET m == posted[transit.toParent + 1]
         event == [source |-> Self, origin |-> OwnOrigin, data |-> m.data]
     IN IF m.to = P /\ targetOriginMatches(m.origin, transit.page)
        THEN ParentBecomes(dispatchToParent(ParentWorld, event), "parentDeliver", event,
                           IFrameController_parseIncomingMessage(event.data))
        ELSE ParentBecomes(ParentWorld, "discard", NoEvent, NoMessage)
  /\ transit' = [transit EXCEPT !.toParent = @ + 1]
  /\ ChildUnchanged

\* The next envelope the controller posted reaches this frame as a message
\* event from the page's window with the page's origin, when it was posted to
\* this frame's window with a target origin this frame matches.
DeliverToFrame ==
  /\ transit.toChild < Len(parentHost.posted)
  /\ LET m == parentHost.posted[transit.toChild + 1]
         event == [source |-> P, origin |-> transit.page, data |-> m.data]
         passed == shouldProcessMessage(communicationState, event.source, event.origin)
     IN IF m.to = Self /\ targetOriginMatches(m.origin, OwnOrigin)
        THEN Changes(CommunicationHub_establishCommunication_resume(
                       dispatchEvent(World, Cardinality(windowListeners), event, FALSE)),
                     "deliver",
                     [source |-> event.source, origin |-> event.origin,
                      passed |-> passed,
                      parsed |-> passed /\ parseIncomingMessage(event).success])
        ELSE Changes(World, "discard", NoEvent)
  /\ transit' = [transit EXCEPT !.toChild = @ + 1]
  /\ UNCHANGED <<controller, parentHost>>

E2ENext ==
  \/ LoadPage
  \/ SetUpFrame
  \/ SetUpController
  \/ SendAsyncMessage
  \/ SynchronizeState
  \/ DeliverToPage
  \/ DeliverToFrame
  \/ Timeout
  \/ HandshakeTimeout

E2ESpec == Init /\ [][E2ENext]_vars

\* The frame and its page while no timer fires and the frame's window is
\* accessible to the page, which is the case most favourable to a handshake.
\* The browser delivers every posted envelope and the page and the frame run
\* their code: something happens as long as something can.
SetUpAccessibleFrame ==
  /\ transit.page # Null
  /\ Len(parentHost.handshakes) < MaxHandshakes
  /\ ParentBecomes(initializeIFrame(ParentWorld, [src |-> "https://g.t/play",
                                                  contentWindow |-> Self]),
                   "initializeIFrame", NoEvent, NoMessage)
  /\ ChildUnchanged /\ UNCHANGED transit

HandshakeNext ==
  \/ LoadPage
  \/ SetUpFrame
  \/ SetUpAccessibleFrame
  \/ SendAsyncMessage
  \/ DeliverToPage
  \/ DeliverToFrame

HandshakeSpec == Init /\ [][HandshakeNext]_vars /\ WF_vars(HandshakeNext)

\* ------------------------------------------------- library functions alone
\* The functions below keep no state between calls, so one call of each is
\* followed from the initial state.
NoCallYet == call.fn = "none"

\* A call of a library function changes nothing of the frame or the page.
RelayUnchanged ==
  UNCHANGED <<communicationState, windowListeners, listenersCreated, timers,
              requests, posted, closed, env, hubStore,
              controller, parentHost, transit, fx, game, running>>

\* Values of a field of a parsed object: absent, a non-string, the empty
\* string, and strings.
FieldValues(strings) == {Undefined, NumberValue, ""} \cup strings

\* What JSON.parse can return: objects with any of the fields of an envelope
\* present or absent, of the right type or not, and values that are no object.
ParsedValues ==
  { [isObject |-> TRUE, id |-> id, type |-> type, method |-> method,
     text |-> text, payload |-> Undefined] :
      id \in FieldValues({"1"}), type \in FieldValues({CONTROL, "bogus"}),
      method \in FieldValues({NAVIGATE_BACK}), text \in FieldValues({"t"}) }
    \cup {ScalarValue}

\* event.data: JSON text of these values, text that is no JSON, and values
\* posted as they are, without JSON.stringify.
MessageData ==
  {JSONstringify(v) : v \in ParsedValues}
    \cup {GarbageData}
    \cup {[isString |-> FALSE, parses |-> FALSE, value |-> v] : v \in ParsedValues}

ParseIncomingMessage ==
  /\ NoCallYet
  /\ \E data \in MessageData :
       call' = [fn |-> "parseIncomingMessage", data |-> data,
                result |-> parseIncomingMessage([data |-> data])]
  /\ RelayUnchanged

ParseNext ==
  \/ ParseIncomingMessage

ParseSpec == Init /\ [][ParseNext]_vars

\* Strings of at most n characters of an alphabet, as sequences.
Strings(alphabet, n) == UNION {[1..k -> alphabet] : k \in 0..n}

\* Patterns of an allowlist and hosts of a URL: every short string of a
\* letter, the dot and the star, and the hosts and patterns of this model.
HostPatterns ==
  Strings({"a", ".", "*"}, MaxPatternLen)
    \cup {TrustedOrigins[i] : i \in DOMAIN TrustedOrigins}
HostNames ==
  Strings({"a", ".", "*"}, MaxHostLen)
    \cup {OwnHost, TrustedHost, EvilHost, <<"e", ".", "c">>,
          <<"a", ".", "b", ".", "e", ".", "c">>}

IsHostMatchingPattern ==
  /\ NoCallYet
  /\ \E pattern \in HostPatterns, hostname \in HostNames :
       call' = [fn |-> "isHostMatchingPattern", pattern |-> pattern,
                hostname |-> hostname,
                result |-> isHostMatchingPattern(pattern, hostname)]
  /\ RelayUnchanged

\* Allowlists of at most two patterns.
Allowlists ==
  LET patterns == {TrustedOrigins[i] : i \in DOMAIN TrustedOrigins}
                    \cup {TrustedHost, <<"*", ".", "c">>}
  IN UNION {[1..k -> patterns] : k \in 0..2}

ValidateTrustedOrigin ==
  /\ NoCallYet
  /\ \E trustedOrigins \in Allowlists,
        hostname \in {OwnHost, TrustedHost, EvilHost, <<"e", ".", "c">>,
                       <<"a", ".", "b", ".", "e", ".", "c">>} :
       call' = [fn |-> "validateTrustedOrigin", trustedOrigins |-> trustedOrigins,
                hostname |-> hostname,
                result |-> validateTrustedOrigin([host |-> hostname],
                                                 Some(trustedOrigins))]
  /\ RelayUnchanged

OriginNext ==
  \/ IsHostMatchingPattern
  \/ ValidateTrustedOrigin

OriginSpec == Init /\ [][OriginNext]_vars

\* ------------------------------------------------- getRandomNumbersArray
\* for (let i = min; i < max; i++) nums.push(i)
rangeOf(min, max) ==
  IF max <= min THEN <<>> ELSE [i \in 1..(max - min) |-> min + i - 1]

\* shuffleArray(nums).slice(0, length): sort with a random comparator leaves
\* some permutation of nums, the first length elements of which are kept.
shuffledSlices(nums, length) ==
  LET n == IF length < Len(nums) THEN length ELSE Len(nums) IN
    { [i \in 1..n |-> nums[pick[i]]] :
        pick \in {f \in [1..n -> DOMAIN nums] :
                    \A i, j \in 1..n : i # j => f[i] # f[j]} }

\* The call, up to the while loop.
GetRandomNumbersArray ==
  /\ NoCallYet
  /\ \E length \in 0..MaxLength, min \in {0 - 1, 0, 2}, width \in (0 - 1)..MaxRange :
       call' = [fn |-> "getRandomNumbersArray", length |-> length,
                max |-> min + width, min |-> min,
                nums |-> rangeOf(min, min + width), pc |-> "while",
                result |-> <<>>]
  /\ RelayUnchanged

\* One iteration of while (nums.length < length) nums.push(...nums).
WhileTooShort ==
  /\ call.fn = "getRandomNumbersArray"
  /\ call.pc = "while"
  /\ Len(call.nums) < call.length
  /\ call' = [call EXCEPT !.nums = @ \o @]
  /\ RelayUnchanged

\* The loop is left and the shuffled slice returned.
ReturnSlice ==
  /\ call.fn = "getRandomNumbersArray"
  /\ call.pc = "while"
  /\ ~(Len(call.nums) < call.length)
  /\ \E result \in shuffledSlices(call.nums, call.length) :
       call' = [call EXCEPT !.pc = "done", !.result = result]
  /\ RelayUnchanged

RandomNext ==
  \/ GetRandomNumbersArray
  \/ WhileTooShort
  \/ ReturnSlice

\* A call that has begun keeps running.
RandomSpec == Init /\ [][RandomNext]_vars /\ WF_vars(WhileTooShort \/ ReturnSlice)

\* ------------------------------------------------- the game service alone
\* A call of a method of the GameService: the events of the call before are
\* forgotten, nothing else of the model changes.
Called(g, method, arg) == [g EXCEPT !.method = method, !.arg = arg, !.emitted = <<>>]

GameBecomes(g) ==
  /\ game' = g
  /\ UNCHANGED <<communicationState, windowListeners, listenersCreated, timers,
                 requests, posted, closed, env, hubStore,
                 controller, parentHost, transit, fx, call, running>>

ConstructGameService ==
  /\ ~game.created
  /\ \E levels \in 0..MaxLevels : GameBecomes(NewGameService(levels))

StartSession ==
  /\ game.created
  /\ GameBecomes(GameService_startSession(Called(game, "startSession", Undefined)))

PauseSession ==
  /\ game.created
  /\ GameBecomes(GameService_pauseSession(Called(game, "pauseSession", Undefined)))

ResumeSession ==
  /\ game.created
  /\ GameBecomes(GameService_resumeSession(Called(game, "resumeSession", Undefined)))

EndSession ==
  /\ game.created
  /\ \E result \in Results :
       GameBecomes(GameService_endSession(Called(game, "endSession", result), result))

ResetSession ==
  /\ game.created
  /\ GameBecomes(GameService_resetSession(Called(game, "resetSession", Undefined)))

NextLevel ==
  /\ game.created
  /\ GameBecomes(GameService_nextLevel(Called(game, "nextLevel", Undefined)))

SetCurrLevel ==
  /\ game.created
  /\ \E level \in ((0 - 1)..MaxLevels) \cup {NaN} :
       GameBecomes(GameService_setCurrLevel(Called(game, "setCurrLevel", level), level))

GameNext ==
  \/ ConstructGameService
  \/ StartSession
  \/ PauseSession
  \/ ResumeSession
  \/ EndSession
  \/ ResetSession
  \/ NextLevel
  \/ SetCurrLevel

GameSpec == Init /\ [][GameNext]_vars

\* ------------------------------------------------------------------ claims

\* ================================================================== claims
\* The requests whose envelopes a step posts through flushQueuedMessages.
QueuedReqs(queue) == [i \in DOMAIN queue |-> queue[i].req]
NewPosts == SubSeq(posted', Len(posted) + 1, Len(posted'))
NewlyFlushed == SelectSeq(NewPosts, LAMBDA e : e.flushed)

\* A step that handles an inbound event which passes the gate.
GatePassingDelivery == fx'.op = "deliver" /\ fx'.passed

\* C1 (as stated): an envelope that was queued is posted only in a step that
\* handles a gate-passing message from the counterpart, and every such step
\* posts the whole queue, in send order.
C1_QueuedPostedOnCounterpartMessage ==
  [][ /\ (NewlyFlushed # <<>> =>
            GatePassingDelivery /\ fx'.source = communicationState'.parentWindow)
      /\ (GatePassingDelivery /\ fx'.source = communicationState'.parentWindow =>
            /\ communicationState'.messageQueue = <<>>
            /\ [i \in DOMAIN NewlyFlushed |-> NewlyFlushed[i].req]
                 = QueuedReqs(communicationState.messageQueue)) ]_vars

\* C1 (amended): an envelope sent while counterpart window or origin is unset
\* is queued, not posted; queued envelopes are posted only in a step that
\* handles a gate-passing, well-formed message, and every such step that
\* leaves counterpart window and origin set posts the whole queue to that
\* window and origin, in send order, before anything else it posts, and
\* empties the queue; no envelope is ever posted twice.
C1_QueueFlushedInOrder ==
  /\ [](\A i, j \in DOMAIN posted : posted[i].req = posted[j].req => i = j)
  /\ [](\A i \in DOMAIN communicationState.messageQueue :
          \A j \in DOMAIN posted : posted[j].req # communicationState.messageQueue[i].req)
  /\ [][ /\ (NewlyFlushed # <<>> => GatePassingDelivery /\ fx'.parsed)
         /\ (\A i \in DOMAIN NewPosts :
               ~NewPosts[i].flushed =>
                  \/ communicationState.parentWindow # Null
                       /\ communicationState.parentOrigin # Null
                  \/ fx'.op \in {"initializeCommunication", "deliver"})
         /\ (GatePassingDelivery /\ fx'.parsed
               /\ communicationState'.parentWindow # Null
               /\ communicationState'.parentOrigin # Null =>
               /\ communicationState'.messageQueue = <<>>
               /\ Len(NewPosts) >= Len(communicationState.messageQueue)
               /\ \A i \in DOMAIN communicationState.messageQueue :
                    /\ NewPosts[i].flushed
                    /\ NewPosts[i].req = communicationState.messageQueue[i].req
                    /\ NewPosts[i].data
                         = JSONstringify(communicationState.messageQueue[i].message)
                    /\ NewPosts[i].to = communicationState'.parentWindow
                    /\ NewPosts[i].origin = communicationState'.parentOrigin) ]_vars

\* Two envelopes that waited in the queue have been posted by one delivery.
C1_Witness ==
  /\ fx.op = "deliver"
  /\ \E i, j \in DOMAIN posted :
       i < j /\ posted[i].flushed /\ posted[j].flushed
       /\ posted[i].req < posted[j].req

\* The calls a step's delivery made, as a set.
CallsOf(f) == {f.calls[i] : i \in DOMAIN f.calls}
AsyncRequests == {r \in DOMAIN requests : requests[r].kind = "async"}
\* The request whose callback the pending table holds under some id.
Registered(st, r) == \E id \in DOMAIN st.pendingCallbacks : st.pendingCallbacks[id] = r

\* C2: a sendAsync promise becomes resolved only in a step that handles a
\* gate-passing, well-formed message from the counterpart window whose id is the
\* request's id, and the value it resolves with is that message's payload.
C2_ResolvedOnlyByMatchingReply ==
  [][ \A r \in DOMAIN requests :
        requests[r].state = "pending" /\ requests'[r].state = "resolved" =>
          /\ GatePassingDelivery /\ fx'.parsed
          /\ fx'.source = communicationState'.parentWindow
          /\ \E c \in CallsOf(fx') :
               /\ c.method = "callback" /\ c.req = r
               /\ c.id = requests[r].id
               /\ c.arg = requests'[r].value ]_vars

\* A request has just been resolved with the payload "pb" of its reply.
C2_Witness ==
  /\ fx.op = "deliver"
  /\ \E r \in DOMAIN requests :
       /\ requests[r].state = "resolved" /\ requests[r].value = "pb"
       /\ \E c \in CallsOf(fx) : c.req = r /\ c.arg = "pb"

\* C3 (as stated): a sendAsync promise settles at most once; a reply carrying
\* its id (an id no other request shares) that is processed before its timer
\* fires resolves it; the timer rejects it otherwise; once settled its entry is
\* gone from the pending table.
C3_ResolvedIfReplyBeforeTimeout ==
  [][ \A r \in AsyncRequests :
        /\ requests'[r].settles <= 1
        /\ ( /\ fx'.op = "deliver" /\ r \in timers
             /\ \E c \in CallsOf(fx') : c.id = requests[r].id
             /\ \A q \in DOMAIN requests : requests[q].id = requests[r].id => q = r
             => requests'[r].state = "resolved" )
        /\ (fx'.op = "timeout" /\ r \in timers /\ r \notin timers'
             => requests'[r].state = "rejected")
        /\ (requests'[r].state # "pending" => ~Registered(communicationState', r)) ]_vars

\* C3 (amended): a sendAsync promise settles at most once: a reply carrying its
\* id that is processed while its callback is still registered resolves it with
\* the reply's payload, and its timer, which stays set for as long as it is
\* pending, rejects it otherwise; once settled its entry is gone from the
\* pending table and its timer is no longer set.
C3_SettlesOnce ==
  /\ [](\A r \in AsyncRequests :
          /\ requests[r].settles <= 1
          /\ (requests[r].state = "pending" <=> r \in timers)
          /\ (requests[r].state = "pending" <=> requests[r].settles = 0)
          /\ (requests[r].state # "pending" => ~Registered(communicationState, r)))
  /\ [][ \A r \in AsyncRequests :
           /\ ( /\ fx'.op = "deliver" /\ Registered(communicationState, r)
                /\ \E c \in CallsOf(fx') : c.id = requests[r].id
                => /\ requests'[r].state = "resolved"
                   /\ \E c \in CallsOf(fx') : c.req = r /\ c.arg = requests'[r].value )
           /\ (fx'.op = "timeout" /\ r \in timers /\ r \notin timers'
                => requests'[r].state = "rejected") ]_vars

\* One promise was resolved by its reply and another rejected by its timer.
C3_Witness ==
  \E r1, r2 \in AsyncRequests :
    /\ requests[r1].state = "resolved" /\ requests[r1].settles = 1
    /\ requests[r2].state = "rejected" /\ requests[r2].settles = 1

\* C4: a message that carries the id of a request whose promise the timeout has
\* rejected is not handed to any handler method.
C4_LateReplyDropped ==
  \A c \in CallsOf(fx) :
    c.method # "callback" =>
      ~\E r \in AsyncRequests : requests[r].state = "rejected" /\ requests[r].id = c.id

\* The channel state and what the host keeps for it, without the step record.
channel == <<communicationState, windowListeners, listenersCreated, timers,
             requests, posted, closed>>

\* C5: handling an event that fails the gate leaves the channel as it was:
\* counterpart, queue and pending table unchanged, nothing posted, no promise
\* settled, and neither a handler method nor a callback called.
C5_RejectedEventChangesNothing ==
  [][ fx'.op = "deliver" /\ ~fx'.passed =>
        /\ UNCHANGED channel
        /\ fx'.calls = <<>> ]_vars

\* The counterpart posted a reply from an origin the gate rejects while a
\* request with that id was pending and an envelope waited in the queue.
C5_Witness ==
  /\ fx.op = "deliver" /\ ~fx.passed /\ fx.source = P
  /\ communicationState.parentWindow = P
  /\ communicationState.messageQueue # <<>>
  /\ "0" \in DOMAIN communicationState.pendingCallbacks

\* The host of an origin matches one of the configured patterns.
HostTrusted(origin) ==
  LET originUrl == NewURL(origin) IN
    /\ ~originUrl.threw
    /\ validateTrustedOrigin(originUrl.value, Some(TrustedOrigins)).value

\* C6: an initialized channel accepts a message from another window exactly
\* when its origin is this frame's own or its host matches a configured pattern.
C6_GateAcceptsTrustedOrigins ==
  fx.op = "deliver" /\ fx.source # Self /\ communicationState.currentWindow # Null =>
    (fx.passed <=> (fx.origin = OwnOrigin \/ HostTrusted(fx.origin)))

\* C7: while the channel is initialized, handling an event whose source is
\* this window itself calls nothing and leaves the channel as it was.
C7_SelfMessageRejected ==
  [][ fx'.op = "deliver" /\ fx'.source = Self
        /\ communicationState.currentWindow # Null =>
        /\ UNCHANGED channel
        /\ fx'.calls = <<>> ]_vars

\* This window posted to itself, from its own origin, a reply to a pending
\* request of an initialized channel.
C7_Witness ==
  /\ fx.op = "deliver" /\ fx.source = Self /\ fx.origin = OwnOrigin
  /\ communicationState.currentWindow = Self
  /\ "0" \in DOMAIN communicationState.pendingCallbacks

\* C8: whenever handling an event called a handler method or a callback, the
\* event's source is the counterpart window as relationship maintenance left it.
C8_OnlyCounterpartDispatched ==
  fx.calls # <<>> => fx.source = communicationState.parentWindow

\* A third window became the counterpart and its message was dispatched.
C8_Witness ==
  /\ fx.calls # <<>>
  /\ fx.source = W2
  /\ communicationState.parentWindow = W2

\* C9: a callback is called at most once, and a message that was given to a
\* callback is not also given to a handler method.
C9_CallbackOnceAndNotRouted ==
  /\ \A r \in DOMAIN requests : requests[r].invoked <= 1
  /\ \A c, d \in CallsOf(fx) :
       c.method = "callback" /\ d.method # "callback" => c.id # d.id

\* The requests still outstanding: callback registered or timer not yet fired.
Outstanding(r) == Registered(communicationState, r) \/ r \in timers

\* C10: no two outstanding requests carry the same id.
C10_OutstandingIdsUnique ==
  \A r, q \in DOMAIN requests :
    Outstanding(r) /\ Outstanding(q) /\ requests[r].id = requests[q].id => r = q

\* C11: "*" is never the counterpart origin once initializeCommunication has
\* returned, and the only envelope ever posted with target origin "*" is the
\* INITIALIZE_CONNECTION control message that initializeCommunication itself
\* sends, never one taken from the queue.
C11_WildcardOnlyForHandshake ==
  /\ communicationState.parentOrigin # Wildcard
  /\ \A i \in DOMAIN posted :
       posted[i].origin = Wildcard =>
         /\ posted[i].data.value.type = CONTROL
         /\ posted[i].data.value.method = INITIALIZE_CONNECTION
         /\ ~posted[i].flushed
         /\ requests[posted[i].req].kind = "async"

\* The handshake went out with "*", and a later envelope went out with the
\* origin the counterpart's message had.
C11_Witness ==
  \E i, j \in DOMAIN posted :
    /\ i < j
    /\ posted[i].origin = Wildcard
    /\ posted[j].origin = OwnOrigin
    /\ posted[j].data.value.method = NAVIGATE_BACK

\* C12: the calls of establishCommunication made on one hub since it was last
\* terminated, none of which has failed, run the handshake of
\* initializeCommunication at most once between them.
C12_EstablishRunsHandshakeOnce ==
  \A h \in Hubs : hubStore.hubs[h].handshakes <= 1

\* C13: sendMessage and sendAsyncMessage called on a hub whose isInitialized is
\* false throw and leave the channel as it was: counter, pending table, queue
\* and postMessage log unchanged.
C13_SendOnUnestablishedHubThrows ==
  [][ \A h \in Hubs :
        /\ fx'.op \in {"sendMessage", "sendAsyncMessage"}
        /\ fx'.hub = h
        /\ ~hubStore.hubs[h].isInitialized
        => /\ fx'.threw
           /\ UNCHANGED channel ]_vars

\* A hub still awaiting its handshake reply, with the listener registered and
\* the handshake callback pending, was asked to send and threw.
C13_Witness ==
  /\ fx.op = "sendAsyncMessage" /\ fx.threw
  /\ fx.hub \in Hubs
  /\ hubStore.hubs[fx.hub].awaiting # {}
  /\ windowListeners # {}
  /\ "0" \in DOMAIN communicationState.pendingCallbacks

\* C20: at most one receive listener is registered on the window, and a hub
\* that reports isReady() has a registered listener and a channel state that is
\* not reset.
C20_OneActiveChannel ==
  /\ Cardinality(windowListeners) <= 1
  /\ \A h \in Hubs :
       isReady(World, h) =>
         /\ windowListeners # {}
         /\ communicationState.currentWindow # Null
         /\ communicationState.messageListener # None

\* C19: cleanupCommunication leaves counterpart window, counterpart origin and
\* listener handle null, queue and pending table empty, no receive listener
\* registered and nothing posted; a promise that is pending with its callback
\* no longer in the table keeps its timer, is never resolved, and is rejected
\* when its timer fires.
C19_TeardownClearsChannel ==
  [][ /\ fx'.op = "cleanupCommunication" =>
           /\ communicationState' = InitialState
           /\ windowListeners' = {}
           /\ posted' = posted
           /\ \A r \in AsyncRequests :
                requests[r].state = "pending" =>
                  requests'[r].state = "pending" /\ r \in timers'
      /\ \A r \in AsyncRequests :
           requests[r].state = "pending" /\ ~Registered(communicationState, r) =>
             /\ requests'[r].state # "resolved"
             /\ (fx'.op = "timeout" /\ r \notin timers' => requests'[r].state = "rejected")
    ]_vars

\* The channel after the listeners handled an event with a handler that returns.
WithoutFault(event, reenter) ==
  LET w == dispatchEvent(World, Cardinality(windowListeners), event, reenter) IN
    <<w.st, w.listeners, w.created, w.timers, w.requests, w.posted, w.closed>>

\* C18: when a handler method called for an inbound message throws, or returns
\* a promise that rejects, no error leaves the receive callback, the listeners
\* stay registered, and the channel is left exactly as the same message leaves
\* it when the handler returns.
C18_HandlerFaultContained ==
  [][ fx'.op = "deliver" /\ (\E c \in CallsOf(fx') : c.outcome # "returns") =>
        /\ ~fx'.escaped
        /\ windowListeners' = windowListeners
        /\ communicationState'.messageListener = communicationState.messageListener
        /\ \E event \in Events, reenter \in BOOLEAN :
             /\ event.source = fx'.source
             /\ event.origin = fx'.origin
             /\ event.data.parses
             /\ \E c \in CallsOf(fx') :
                  /\ c.id = event.data.value.id
                  /\ c.type = event.data.value.type
                  /\ c.arg = event.data.value.payload
             /\ channel' = WithoutFault(event, reenter) ]_vars

\* The handler threw on a sync message while a request was pending, and a
\* promise of the channel had been resolved before: the channel is in use.
C18_Witness ==
  /\ fx.op = "deliver"
  /\ \E c \in CallsOf(fx) : c.outcome = "throws" /\ c.method = "onSyncStateMessage"
  /\ \E c \in CallsOf(fx) : c.outcome = "throws" /\ c.method = "onSyncStateMessage"
                              /\ communicationState.parentWindow = fx.source
  /\ DOMAIN communicationState.pendingCallbacks # {}
  /\ \E r \in AsyncRequests : requests[r].state = "resolved"

Handshakes == DOMAIN parentHost.handshakes
NewParentPosts ==
  SubSeq(parentHost'.posted, Len(parentHost.posted) + 1, Len(parentHost'.posted))

\* C14: when an INITIALIZE_CONNECTION control message arrives while a
\* handshake is pending (promise pending, timer set, the controller not
\* terminated since it started), whatever arrived before,
\* the timer is cancelled, the promise resolved, the controller becomes
\* communication-ready with a persistent listener registered, and a control
\* message with method INITIALIZE_CONNECTION and the same id is posted back.
C14_HandshakeCompletesOnInitializeConnection ==
  [][ \A k \in Handshakes :
        /\ fx'.op = "parentDeliver"
        /\ fx'.msg.success
        /\ fx'.msg.message.type = CONTROL
        /\ fx'.msg.message.method = INITIALIZE_CONNECTION
        /\ parentHost.handshakes[k].promise = "pending"
        /\ parentHost.handshakes[k].timer
        /\ ~parentHost.handshakes[k].stale
        => /\ ~parentHost'.handshakes[k].timer
           /\ parentHost'.handshakes[k].promise = "resolved"
           /\ controller'.lifecycleState = COMMUNICATION_READY
           /\ controller'.messageEventListener # None
           /\ controller'.messageEventListener[1] \in parentHost'.listeners
           /\ \E i \in DOMAIN NewParentPosts :
                NewParentPosts[i].data.value =
                  Envelope(fx'.msg.message.id, CONTROL, INITIALIZE_CONNECTION, Undefined)
    ]_vars

\* C15: a handshake's promise is pending exactly while its timer is set; when
\* the timer fires the promise is rejected, and if no INITIALIZE_CONNECTION
\* message has arrived since the handshake started the controller is not
\* communication-ready then.
C15_HandshakeTimeoutRejects ==
  /\ [](\A k \in Handshakes :
          parentHost.handshakes[k].promise = "pending" <=> parentHost.handshakes[k].timer)
  /\ [][ \A k \in Handshakes :
           /\ fx'.op = "handshakeTimeout"
           /\ parentHost.handshakes[k].timer
           /\ ~parentHost'.handshakes[k].timer
           => /\ parentHost'.handshakes[k].promise = "rejected"
              /\ (~parentHost.handshakes[k].announced =>
                    controller'.lifecycleState # COMMUNICATION_READY) ]_vars

\* A handshake that lost its listener to another message timed out unanswered
\* and was rejected, the controller still waiting.
C15_Witness ==
  /\ fx.op = "handshakeTimeout"
  /\ \E k \in Handshakes :
       /\ parentHost.handshakes[k].promise = "rejected"
       /\ ~parentHost.handshakes[k].announced
       /\ ~parentHost.handshakes[k].listening
  /\ controller.lifecycleState = CONTENT_LOADED

\* C17: terminateIFrame leaves the controller bootstrapped with target window
\* and origin null, and from then on no message event calls a method of the
\* handler until a handshake started by a later initializeIFrame has completed.
C17_NoDispatchAfterTerminate ==
  /\ [][ fx'.op = "terminateIFrame" =>
           /\ controller'.lifecycleState = BOOTSTRAPPED
           /\ controller'.targetWindow = Null
           /\ controller'.targetOrigin = Null ]_vars
  /\ [](fx.op = "parentDeliver" /\ parentHost.terminated => fx.calls = <<>>)

\* The envelope the next event at this frame carries, posted by the controller.
Arriving == parentHost.posted[transit.toChild + 1].data.value

\* This step delivered the controller's next envelope to this frame and the
\* gate let it pass.
ArrivesAtFrame ==
  /\ transit'.toChild = transit.toChild + 1
  /\ fx'.op = "deliver"
  /\ fx'.passed

\* C16: when this frame's INITIALIZE_CONNECTION reaches the page while a
\* handshake listener is registered, the controller posts a control message
\* INITIALIZE_CONNECTION with the same id to the frame; when that reply passes
\* the frame's gate while a callback is pending for its id, the request's
\* promise resolves with it and the hub awaiting it becomes ready; and when a
\* sync message currLevel with payload 2 posted by synchronizeState then
\* passes the gate of the ready hub's frame, onSyncStateMessage is called
\* exactly once, with that message, and no other handler method is.
C16_EndToEndHandshake ==
  /\ [][ /\ transit'.toParent = transit.toParent + 1
         /\ fx'.op = "parentDeliver"
         /\ isInitializeConnection([data |-> posted[transit.toParent + 1].data])
         /\ \E k \in Handshakes : parentHost.handshakes[k].listening
         => \E i \in DOMAIN NewParentPosts :
              /\ NewParentPosts[i].to = Self
              /\ NewParentPosts[i].data.value.type = CONTROL
              /\ NewParentPosts[i].data.value.method = INITIALIZE_CONNECTION
              /\ NewParentPosts[i].data.value.id = posted[transit.toParent + 1].data.value.id
       ]_vars
  /\ [][ /\ ArrivesAtFrame
         /\ Arriving.type = CONTROL
         /\ Arriving.method = INITIALIZE_CONNECTION
         /\ MapHas(communicationState.pendingCallbacks, Arriving.id)
         => LET req == MapGet(communicationState.pendingCallbacks, Arriving.id) IN
              /\ requests'[req].state = "resolved"
              /\ ~MapHas(communicationState'.pendingCallbacks, Arriving.id)
              /\ req \notin timers'
              /\ \A h \in Hubs : req \in hubStore.hubs[h].awaiting =>
                    hubStore'.hubs[h].isInitialized
       ]_vars
  /\ [][ /\ ArrivesAtFrame
         /\ Arriving.type = SYNC
         /\ Arriving.method = "currLevel"
         /\ Arriving.payload = 2
         /\ \E h \in Hubs : hubStore.hubs[h].isInitialized
         => /\ Len(fx'.calls) = 1
            /\ fx'.calls[1].method = "onSyncStateMessage"
            /\ fx'.calls[1].type = SYNC
            /\ fx'.calls[1].id = Undefined
            /\ fx'.calls[1].arg = 2
       ]_vars

\* The handshake has completed on both sides and the sync message that
\* followed it has just been handed to the frame's handler.
C16_Witness ==
  /\ fx.op = "deliver"
  /\ fx.passed
  /\ Len(fx.calls) = 1
  /\ fx.calls[1].method = "onSyncStateMessage"
  /\ fx.calls[1].arg = 2
  /\ controller.lifecycleState = COMMUNICATION_READY
  /\ \E h \in Hubs : hubStore.hubs[h].isInitialized
  /\ \E r \in DOMAIN requests :
       requests[r].method = INITIALIZE_CONNECTION /\ requests[r].state = "resolved"

\* The conditions under which a payload is malformed, as listed: a field that
\* is present but no string, a category that is no string.
PresentButNoString(v) == v # Undefined /\ ~isString(v)

Malformed(data) ==
  \/ ~data.isString
  \/ ~data.parses
  \/ ~data.value.isObject
  \/ ~isString(data.value.type)
  \/ PresentButNoString(data.value.id)
  \/ PresentButNoString(data.value.method)
  \/ PresentButNoString(data.value.text)

\* C21 as stated: parseIncomingMessage fails on exactly the malformed
\* payloads, and succeeds with the parsed value on every other one.
C21_ParseFailsExactlyOnMalformed ==
  call.fn = "parseIncomingMessage" =>
    /\ call.result.success <=> ~Malformed(call.data)
    /\ call.result.success => call.result.message = call.data.value

\* C21: parseIncomingMessage fails on every malformed payload and on every
\* object whose category is the empty string, and succeeds with the parsed
\* value on every other payload.
C21_ParseFailsOnMalformedOrEmptyCategory ==
  call.fn = "parseIncomingMessage" =>
    /\ call.result.success <=> ~Malformed(call.data) /\ call.data.value.type # ""
    /\ call.result.success => call.result.message = call.data.value

\* A well-formed payload whose id is present and a string was parsed
\* successfully.
C21_Witness ==
  /\ call.fn = "parseIncomingMessage"
  /\ call.result.success
  /\ call.data.value.id = "1"
  /\ call.result.message.type = CONTROL

\* host is one non-empty label followed by a dot and suffix.
OneLabelThen(suffix, host) ==
  \E n \in 1..Len(host) :
    /\ \A i \in 1..n : host[i] # "."
    /\ host = SubSeq(host, 1, n) \o <<".">> \o suffix

\* The documented matching rule: the pattern itself, or *.S against one label
\* followed by .S.
Matches(pattern, host) ==
  \/ pattern = host
  \/ /\ Len(pattern) >= 2
     /\ pattern[1] = "*" /\ pattern[2] = "."
     /\ OneLabelThen(SubSeq(pattern, 3, Len(pattern)), host)

\* C22: isHostMatchingPattern returns true exactly for the pairs the rule
\* names, and validateTrustedOrigin returns true exactly when some pattern of
\* the list matches the host of the URL.
C22_HostMatchingRule ==
  /\ call.fn = "isHostMatchingPattern" =>
       (call.result <=> Matches(call.pattern, call.hostname))
  /\ call.fn = "validateTrustedOrigin" =>
       /\ ~call.result.threw
       /\ call.result.value <=>
            \E i \in DOMAIN call.trustedOrigins :
              Matches(call.trustedOrigins[i], call.hostname)

\* The wildcard pattern *.e.c was tried against a host two labels deeper and
\* did not match.
C22_Witness ==
  /\ call.fn = "isHostMatchingPattern"
  /\ call.pattern = <<"*", ".", "e", ".", "c">>
  /\ call.hostname = <<"a", ".", "b", ".", "e", ".", "c">>
  /\ ~call.result

\* The edges of the documented lifecycle graph.
LifecycleEdges ==
  { <<"initialized", "active">>, <<"active", "paused">>, <<"paused", "active">>,
    <<"active", "end">>, <<"paused", "end">>, <<"end", "initialized">> }

\* C23: every change of the session state follows an edge of the lifecycle
\* graph, which is also what getValidTransitions lists.
C23_SessionFollowsLifecycle ==
  [][ game.created /\ game'.sessionManager.session # game.sessionManager.session
      => /\ <<game.sessionManager.session, game'.sessionManager.session>>
               \in LifecycleEdges
         /\ game'.sessionManager.session
               \in getValidTransitions(game.sessionManager.session) ]_vars

\* The result event of a result.
ResultEvent(result) ==
  CASE result = "success" -> RESULT_SUCCESS
    [] result = "error" -> RESULT_ERROR
    [] result = "timeout" -> RESULT_TIMEOUT

Event(event, arg) == [event |-> event, arg |-> arg]

\* The session state and the result after the call are those before it.
SessionKept ==
  /\ game'.sessionManager.session = game.sessionManager.session
  /\ game'.sessionManager.result = game.sessionManager.result

\* C24: startSession from initialized makes the session active and emits
\* session.active; pauseSession from active pauses it and emits session.pause;
\* resumeSession from paused makes it active and emits session.active;
\* endSession from active or paused ends it, sets the result and emits the
\* result's event and then session.end with the result; each of them, called
\* in any other state, keeps session state and result and emits nothing, and
\* no other method emits a session or result event.
C24_EventsIffTransition ==
  [][ game.created /\ game' # game =>
        /\ game'.method = "startSession" =>
             IF game.sessionManager.session = "initialized"
             THEN /\ game'.sessionManager.session = "active"
                  /\ game'.emitted = <<Event(SESSION_ACTIVE, Undefined)>>
             ELSE SessionKept /\ game'.emitted = <<>>
        /\ game'.method = "pauseSession" =>
             IF game.sessionManager.session = "active"
             THEN /\ game'.sessionManager.session = "paused"
                  /\ game'.emitted = <<Event(SESSION_PAUSE, Undefined)>>
             ELSE SessionKept /\ game'.emitted = <<>>
        /\ game'.method = "resumeSession" =>
             IF game.sessionManager.session = "paused"
             THEN /\ game'.sessionManager.session = "active"
                  /\ game'.emitted = <<Event(SESSION_ACTIVE, Undefined)>>
             ELSE SessionKept /\ game'.emitted = <<>>
        /\ game'.method = "endSession" =>
             IF game.sessionManager.session \in {"active", "paused"}
             THEN /\ game'.sessionManager.session = "end"
                  /\ game'.sessionManager.result = game'.arg
                  /\ game'.emitted = <<Event(ResultEvent(game'.arg), Undefined),
                                       Event(SESSION_END, game'.arg)>>
             ELSE SessionKept /\ game'.emitted = <<>>
        /\ game'.method \in {"resetSession", "nextLevel", "setCurrLevel"} =>
             game'.emitted = <<>>
    ]_vars

\* A paused session was ended with a timeout: result.timeout, then
\* session.end with the result, were emitted.
C24_Witness ==
  /\ game.method = "endSession"
  /\ game.sessionManager.session = "end"
  /\ game.sessionManager.result = "timeout"
  /\ game.emitted = <<Event(RESULT_TIMEOUT, Undefined), Event(SESSION_END, "timeout")>>

\* C25: after setCurrLevel with the index of the last level isGameComplete()
\* is true, and it is still true after a nextLevel() that follows.
C25_CompleteAtLastLevel ==
  /\ [](/\ game.method = "setCurrLevel"
         /\ game.levelManager.levels >= 1
         /\ game.arg = game.levelManager.levels - 1
         => GameService_isGameComplete(game))
  /\ [][ /\ game.created
         /\ GameService_isGameComplete(game)
         /\ game'.method = "nextLevel"
         => GameService_isGameComplete(game') ]_vars

\* The call of getRandomNumbersArray has returned.
HasReturned == call.fn = "getRandomNumbersArray" /\ call.pc = "done"

\* C26: every call of getRandomNumbersArray returns, and for a non-empty
\* range what it returns has length elements, each at least min and below max.
C26_TerminatesWithLengthElements ==
  /\ [](call.fn = "getRandomNumbersArray" => <>HasReturned)
  /\ [](/\ call.fn = "getRandomNumbersArray"
         /\ call.pc = "done"
         /\ call.min < call.max
         => /\ Len(call.result) = call.length
            /\ \A i \in DOMAIN call.result :
                 call.result[i] >= call.min /\ call.result[i] < call.max)

\* The part of C26 about the calls that return: the result of a call on a
\* non-empty range has length elements within the range.
C26_ReturnedWithinRange ==
  /\ call.fn = "getRandomNumbersArray"
  /\ call.pc = "done"
  /\ call.min < call.max
  => /\ Len(call.result) = call.length
     /\ \A i \in DOMAIN call.result :
          call.result[i] >= call.min /\ call.result[i] < call.max

\* This step handled a gate-passing, well-formed message from an open window
\* other than the counterpart, the counterpart window being closed.
Reconnects ==
  /\ GatePassingDelivery
  /\ fx'.parsed
  /\ communicationState.parentWindow # Null
  /\ communicationState.parentWindow \in closed
  /\ fx'.source # communicationState.parentWindow
  /\ fx'.source \notin closed

\* The queue was posted to the new counterpart, first in first out.
FlushedToNewCounterpart ==
  /\ communicationState'.messageQueue = <<>>
  /\ Len(NewPosts) >= Len(communicationState.messageQueue)
  /\ \A i \in DOMAIN communicationState.messageQueue :
       /\ NewPosts[i].req = communicationState.messageQueue[i].req
       /\ NewPosts[i].to = fx'.source
       /\ NewPosts[i].origin = fx'.origin

C28_InboundRunsToCompletion ==
  [][ GatePassingDelivery /\ fx'.parsed => running = <<>> ]_vars

\* C29: a persistent listener of the embedding page calls a handler method,
\* onUnknownMessage included, only with data that is a string, parses as
\* JSON, and whose parsed value is an object with a string type.
C29_ParentNeverSurfacesMalformed ==
  fx.op = "parentDeliver" /\ fx.calls # <<>> =>
    /\ fx.msg.success
    /\ fx.msg.message.isObject
    /\ isString(fx.msg.message.type)

\* C30: the controller acts on a message event only when its source is the
\* window the controller targets: an event from any other window completes
\* no handshake (the controller's lifecycle state stays, no promise of
\* establishCommunication resolves, nothing is posted in reply), and no
\* handler method is called with it.
C30_ParentVerifiesSource ==
  [][ fx'.op = "parentDeliver" /\ fx'.source # controller.targetWindow
      => /\ controller' = controller
         /\ \A k \in DOMAIN parentHost.handshakes :
              parentHost'.handshakes[k].promise = parentHost.handshakes[k].promise
         /\ parentHost'.posted = parentHost.posted
         /\ fx'.calls = <<>> ]_vars

\* C40: with a level list that is not empty, the current level is an index
\* of the list after any calls of nextLevel and setCurrLevel.
C40_CurrLevelWithinRange ==
  game.created /\ game.levelManager.levels >= 1 =>
    /\ atLeast(game.levelManager.currLevel, 0)
    /\ lessThan(game.levelManager.currLevel, game.levelManager.levels)

\* C32: when this frame has neither an embedder nor an opener,
\* initializeCommunication fails, posts nothing, leaves no listener on the
\* window and leaves the channel state at its initial values.
C32_NoParentFailsCleanly ==
  [][ fx'.op = "initializeCommunication" /\ env.parent = Self /\ env.opener = Null
      => /\ fx'.threw
         /\ posted' = posted
         /\ windowListeners' = {}
         /\ communicationState' = InitialState ]_vars

\* initializeCommunication has failed for want of a counterpart, after a
\* request had been queued.
C32_Witness ==
  /\ fx.op = "initializeCommunication" /\ fx.threw
  /\ env.parent = Self /\ env.opener = Null
  /\ requests # <<>>
  /\ communicationState = InitialState

\* C33: when the handshake request a hub's establishCommunication awaits is
\* rejected by its timer, no listener is left on the window and the channel
\* state is back at its initial values.
EstablishmentTimesOut ==
  /\ fx'.op = "timeout"
  /\ \E h \in Hubs : \E r \in hubStore.hubs[h].awaiting :
       requests[r].state = "pending" /\ requests'[r].state = "rejected"

C33_FailedEstablishmentLeavesNothing ==
  [][ EstablishmentTimesOut
      => /\ windowListeners' = {}
         /\ communicationState' = InitialState ]_vars

\* C34: once every handshake establishCommunication started has been rejected
\* by its timer or was pending when terminateIFrame was called, a message
\* event does not make the controller ready, register a persistent listener
\* or post a reply; and a controller that is ready has a target window and a
\* target origin.
NoLiveHandshake ==
  /\ parentHost.handshakes # <<>>
  /\ \A k \in DOMAIN parentHost.handshakes :
       \/ parentHost.handshakes[k].promise = "rejected"
       \/ parentHost.handshakes[k].stale /\ parentHost.handshakes[k].promise = "pending"

ReadyHasTarget ==
  controller.lifecycleState = COMMUNICATION_READY =>
    controller.targetWindow # Null /\ controller.targetOrigin # Null

C34_AbandonedHandshakeStaysDead ==
  /\ []ReadyHasTarget
  /\ [][ fx'.op = "parentDeliver" /\ NoLiveHandshake
         /\ controller.lifecycleState # COMMUNICATION_READY
         => /\ controller'.lifecycleState = controller.lifecycleState
            /\ parentHost'.listeners = parentHost.listeners
            /\ parentHost'.posted = parentHost.posted ]_vars

\* C35: when initializeIFrame was called again while the handshake was
\* pending, the message that completes the handshake leaves one persistent
\* listener on the window and one reply posted.
PendingTwice ==
  /\ Len(parentHost.handshakes) >= 2
  /\ \A k \in DOMAIN parentHost.handshakes :
       /\ parentHost.handshakes[k].listening
       /\ parentHost.handshakes[k].promise = "pending"
       /\ ~parentHost.handshakes[k].stale

C35_RepeatedInitializeOneChannel ==
  [][ /\ fx'.op = "parentDeliver"
      /\ PendingTwice
      /\ controller.lifecycleState = CONTENT_LOADED
      /\ controller'.lifecycleState = COMMUNICATION_READY
      => /\ Cardinality(parentHost'.listeners) = 1
         /\ Len(parentHost'.posted) = Len(parentHost.posted) + 1 ]_vars

\* C36: within a lifetime of the channel the envelopes reach postMessage in
\* the order their ids were generated, and the queue is empty whenever the
\* counterpart's window and origin are both set.
PostedInOrder ==
  \A i, j \in DOMAIN posted : i < j => posted[i].req < posted[j].req

C36_PostedInIdOrder ==
  /\ PostedInOrder
  /\ (communicationState.parentWindow # Null /\ communicationState.parentOrigin # Null
        => communicationState.messageQueue = <<>>)

\* After the handshake an envelope was queued and flushed, and a later one
\* was posted at once.
C36_Witness ==
  \E i, j, k \in DOMAIN posted :
    /\ i < j /\ j < k
    /\ ~posted[i].flushed /\ posted[j].flushed /\ ~posted[k].flushed
    /\ communicationState.parentOrigin # Null

\* C37: while the counterpart's window is open, a gate-passing message from
\* another window changes neither the counterpart's window nor its origin and
\* has nothing posted to that other window; and a counterpart origin is never
\* held without a counterpart window.
CounterpartOpen ==
  /\ communicationState.parentWindow # Null
  /\ communicationState.parentWindow \notin closed

OriginImpliesWindow ==
  communicationState.parentOrigin # Null => communicationState.parentWindow # Null

C37_StrangerLeavesCounterpart ==
  /\ []OriginImpliesWindow
  /\ [][ /\ GatePassingDelivery
         /\ CounterpartOpen
         /\ fx'.source # communicationState.parentWindow
         => /\ communicationState'.parentWindow = communicationState.parentWindow
            /\ communicationState'.parentOrigin = communicationState.parentOrigin
            /\ \A i \in DOMAIN NewPosts : NewPosts[i].to # fx'.source ]_vars

\* A third window's envelope passed the gate while envelopes were waiting in
\* the queue for the counterpart, which is open.
C37_Witness ==
  /\ fx.op = "deliver" /\ fx.passed /\ fx.parsed
  /\ fx.source = W2
  /\ communicationState.parentWindow = P /\ P \notin closed
  /\ communicationState.messageQueue # <<>>

\* C38: the controller posts no sync envelope to the frame unless it is
\* communication-ready: synchronizeState called while the controller is
\* bootstrapped or while the handshake is pending posts nothing.
C38_ParentPostsOnlyWhenReady ==
  [][ fx'.op = "synchronizeState" /\ controller.lifecycleState # COMMUNICATION_READY
      => parentHost'.posted = parentHost.posted ]_vars

\* C39: when this frame has posted INITIALIZE_CONNECTION and the page, loaded
\* from the frame's own origin, has not yet registered a handshake listener,
\* both sides are eventually ready: the frame's hub is initialized and the
\* controller is communication-ready.
ChildAnnounced ==
  \E i \in DOMAIN posted :
    posted[i].to = P /\ posted[i].data.value.method = INITIALIZE_CONNECTION

BothReady ==
  /\ controller.lifecycleState = COMMUNICATION_READY
  /\ \E h \in Hubs : hubStore.hubs[h].isInitialized

C39_HandshakeWhicheverStartsFirst ==
  [](ChildAnnounced /\ parentHost.handshakes = <<>> /\ transit.page = OwnOrigin
       => <>BothReady)

\* C31: when a method of the page's handler called for an inbound message
\* throws, or returns a promise that rejects, the error is caught inside the
\* controller: no uncaught error and no unhandled rejection leaves the
\* persistent listener, and the listener stays registered.
C31_ParentHandlerFaultContained ==
  [][ fx'.op = "parentDeliver" /\ (\E c \in CallsOf(fx') : c.outcome # "returns")
      => /\ ~fx'.escaped
         /\ parentHost'.listeners = parentHost.listeners ]_vars

====
